---- MODULE Spec2Model ----
(***************************************************************************)
(* A model of theopenlane/httpsling: the Retry middleware (retry.go), the  *)
(* Requester builder with its options and clones (requester.go,           *)
(* options.go), and the properties the specification states about them.   *)
(***************************************************************************)
EXTENDS Integers, Sequences, FiniteSets, TLC

(***************************************************************************)
(* Bounds of the model                                                     *)
(***************************************************************************)
\* largest MaxAttempts a configuration sets (0 stands for "not set / < 1")
MaxCfgAttempts == 2
\* largest delay, in clock ticks, a backoff configuration uses
MaxDelayTicks == 1
\* number of Requester objects (the source and its clones) kept at a time
MaxObjs == 3
\* number of operations performed on the Requesters in one behaviour
MaxOps == 2
\* number of values a header key holds
MaxHeaderVals == 2
\* number of options in one call of New, Apply or With
MaxOptLen == 3
\* number of per-call options of a Receive call
MaxRecvOpts == 2
\* number of middleware a Requester uses
MaxUses == 2
\* largest MaxAttempts of the Retry middleware a Requester uses
MaxDoAttempts == 2
\* number of pairs in the raw query of a URL
MaxRawPairs == 2
\* number of values of a key of the Requester's QueryParams
MaxParamVals == 2

(***************************************************************************)
(* Program constants                                                       *)
(***************************************************************************)
\* RetryConfig.normalize: MaxAttempts < 1 becomes 3
DefaultMaxAttempts == 3

(***************************************************************************)
(* Values                                                                  *)
(***************************************************************************)
\* request body contents (byte strings)
Bytes == {"", "ab", "cd"}

\* errors: "nil" is no error.  Reading a response body fails with a
\* connection reset, which DefaultShouldRetry retries, or with
\* io.ErrUnexpectedEOF, which it does not
TransportErrs == {"EOF", "other"}
ReadErrs == {"ECONNRESET", "ErrUnexpectedEOF"}
Statuses == {200, 500}

\* Requester.Body values: nil, a string / []byte, an opaque io.Reader, the
\* http.NoBody sentinel, a value that the Marshaler turns into bytes
BuilderBodies ==
    {[kind |-> "nil", bytes |-> ""],
     [kind |-> "string", bytes |-> ""],
     [kind |-> "string", bytes |-> "ab"],
     [kind |-> "reader", bytes |-> "ab"],
     [kind |-> "NoBody", bytes |-> ""],
     [kind |-> "value", bytes |-> "ab"]}

\* Requester.GetBody values: nil, a producer of some bytes, a failing producer
NoGetBody == [kind |-> "nil", bytes |-> ""]
BuilderGetBodies ==
    {NoGetBody,
     [kind |-> "ok", bytes |-> "ab"],
     [kind |-> "ok", bytes |-> "cd"],
     [kind |-> "fail", bytes |-> ""]}

\* Backoffer configurations (ExponentialBackoff with Jitter = 0):
\* NoBackoff(), ConstantBackoff(d), and an exponential one
Backoffs ==
    {[BaseDelay |-> 0, Multiplier |-> 0, MaxDelay |-> 0]}
    \cup {[BaseDelay |-> d, Multiplier |-> 0, MaxDelay |-> 0] : d \in 1..MaxDelayTicks}
    \cup {[BaseDelay |-> 1, Multiplier |-> 2, MaxDelay |-> MaxDelayTicks + 1]}

RetryConfigs ==
    [MaxAttempts : 0..MaxCfgAttempts,
     ShouldRetry : {"default", "custom"},
     Backoff : Backoffs,
     ReadResponse : BOOLEAN]

(***************************************************************************)
(* Request materialization: requester.go                                   *)
(***************************************************************************)
\* getRequestBody: the io.Reader handed to http.NewRequestWithContext
getRequestBody(b) ==
    CASE b.kind = "nil" -> [rd |-> "nil", bytes |-> ""]
      [] b.kind = "reader" -> [rd |-> "opaque", bytes |-> b.bytes]
      [] b.kind = "NoBody" -> [rd |-> "NoBody", bytes |-> ""]
      [] b.kind = "string" -> [rd |-> "sized", bytes |-> b.bytes]
      [] OTHER -> [rd |-> "sized", bytes |-> b.bytes]

\* http.NewRequestWithContext: Body and GetBody of the new request.  A
\* strings.Reader / bytes.Reader gets a GetBody over a snapshot of its bytes,
\* and becomes NoBody when it is empty; any other reader gets no GetBody.
NewRequestWithContext(rd) ==
    CASE rd.rd = "nil" ->
            [id |-> 0, body |-> "nil", content |-> "", GetBody |-> NoGetBody]
      [] rd.rd = "NoBody" ->
            [id |-> 0, body |-> "NoBody", content |-> "", GetBody |-> NoGetBody]
      [] rd.rd = "opaque" ->
            [id |-> 0, body |-> "stream", content |-> rd.bytes, GetBody |-> NoGetBody]
      [] OTHER ->
            IF rd.bytes = ""
            THEN [id |-> 0, body |-> "NoBody", content |-> "",
                  GetBody |-> [kind |-> "ok", bytes |-> ""]]
            ELSE [id |-> 0, body |-> "stream", content |-> rd.bytes,
                  GetBody |-> [kind |-> "ok", bytes |-> rd.bytes]]

\* RequestWithContext, as far as the body is concerned: the Requester's own
\* GetBody, when set, replaces the automatic one
RequestBodyOf(b, gb) ==
    LET r0 == NewRequestWithContext(getRequestBody(b))
    IN  IF gb.kind # "nil" THEN [r0 EXCEPT !.GetBody = gb] ELSE r0

\* Requester.Marshaler: nil (DefaultMarshaler, the JSONMarshaler), the JSON,
\* XML and Form marshalers, a MarshalFunc returning no content type, and one
\* returning an error
Marshalers == {"nil", "JSON", "XML", "Form", "noct", "fail"}

\* A content type is the sequence of the tokens of its text, the separators
\* "/", "+" and ";" among them; <<>> is the empty string
ContentTypeForm == <<"application", "/", "x-www-form-urlencoded">>
ContentTypeJSON == <<"application", "/", "json">>
ContentTypeJSONUTF8 == <<"application", "/", "json", ";", "charset=utf-8">>
ContentTypeXML == <<"application", "/", "xml">>
ContentTypeXMLUTF8 == <<"application", "/", "xml", ";", "charset=utf-8">>
ContentTypeText == <<"text", "/", "plain">>

\* the Content-Type header of the Requester: <<>> is not set
HeaderContentTypes == {<<>>, ContentTypeText}

\* Marshaler.Marshal: the content type returned, ok = no error
Marshal(m) ==
    CASE m \in {"nil", "JSON"} -> [ok |-> TRUE, ct |-> ContentTypeJSONUTF8]
      [] m = "XML" -> [ok |-> TRUE, ct |-> ContentTypeXMLUTF8]
      [] m = "Form" -> [ok |-> TRUE, ct |-> ContentTypeForm]
      [] m = "noct" -> [ok |-> TRUE, ct |-> <<>>]
      [] OTHER -> [ok |-> FALSE, ct |-> <<>>]

\* getRequestBody: the content type returned beside the reader; only a value
\* that is no string, []byte or io.Reader is marshaled
bodyContentType(b, m) ==
    IF b.kind = "value" THEN Marshal(m) ELSE [ok |-> TRUE, ct |-> <<>>]

\* RequestWithContext: req.Header = requester.Header.Clone(), then
\* if contentType != "" { req.Header.Set(HeaderContentType, contentType) }
requestContentType(hct, ct) == IF ct # <<>> THEN ct ELSE hct

(***************************************************************************)
(* retry.go: pure helpers                                                  *)
(***************************************************************************)
\* RetryConfig.normalize
normalize(c) ==
    [c EXCEPT !.MaxAttempts = IF c.MaxAttempts < 1 THEN DefaultMaxAttempts
                              ELSE c.MaxAttempts]

\* DefaultShouldRetry retrying on every status from 500 on
DefaultShouldRetryFrom500(status, e) ==
    CASE e = "nil" -> (status >= 500 \/ status = 429)
      [] e \in {"EOF", "ECONNRESET", "ECONNABORTED", "EPIPE"} -> TRUE
      [] e = "timeout" -> TRUE
      [] OTHER -> FALSE

\* DefaultShouldRetry retrying on a status only, never on an error
DefaultShouldRetryStatusOnly(status, e) ==
    e = "nil" /\ (status = 500 \/ status > 501 \/ status = 429)

\* DefaultShouldRetry
DefaultShouldRetry(status, e) ==
    CASE e = "nil" -> (status = 500 \/ status > 501 \/ status = 429)
      [] e \in {"EOF", "ECONNRESET", "ECONNABORTED", "EPIPE"} -> TRUE
      [] e = "timeout" -> TRUE
      [] OTHER -> FALSE

RECURSIVE Pow(_, _)
Pow(b, n) == IF n <= 0 THEN 1 ELSE b * Pow(b, n - 1)

Min(a, b) == IF a < b THEN a ELSE b
Max(a, b) == IF a > b THEN a ELSE b

\* Backoff raising the multiplier to the attempt instead of attempt - 1
BackoffExponentOffByOne(bo, n) ==
    LET b0 == IF bo.Multiplier > 0
              THEN bo.BaseDelay * Pow(bo.Multiplier, n)
              ELSE bo.BaseDelay
        b1 == IF bo.MaxDelay > 0 THEN Min(b0, bo.MaxDelay) ELSE b0
    IN  Max(0, b1)

\* ExponentialBackoff.Backoff with Jitter = 0
Backoff(c, attempt) ==
    LET b0 == IF c.Multiplier > 0
              THEN c.BaseDelay * Pow(c.Multiplier, attempt - 1)
              ELSE c.BaseDelay
        b1 == IF c.MaxDelay > 0 THEN Min(b0, c.MaxDelay) ELSE b0
    IN  Max(0, b1)

\* bodyEmpty with the GetBody test inverted
bodyEmptyInverted(req) ==
    req.body # "nil" /\ req.body # "NoBody" /\ req.GetBody.kind # "nil"

\* bodyEmpty: TRUE for a request that cannot be replayed
bodyEmpty(req) ==
    req.body # "nil" /\ req.body # "NoBody" /\ req.GetBody.kind = "nil"

\* the exit test off by one: attempt > c.MaxAttempts
attemptsExhaustedOffByOne(attempt, c) == attempt > c.MaxAttempts

\* the loop's first exit test: attempt >= c.MaxAttempts
attemptsExhausted(attempt, c) == attempt >= c.MaxAttempts

(***************************************************************************)
(* Responses and response bodies                                           *)
(***************************************************************************)
\* A response: body is "nil", "NoBody", "orig" (the stream the executor
\* returned), "buf" (io.NopCloser over the buffered bytes) or "errCloser".
\* readErr is the error reading the stream yields, closeFails whether its
\* Close returns an error, drained whether the middleware has drained and
\* closed the body the response now carries.
NilResp ==
    [isNil |-> TRUE, status |-> 0, body |-> "nil", readErr |-> "nil",
     closeFails |-> FALSE, drained |-> FALSE]

Response(st, b, re, cf) ==
    [isNil |-> FALSE, status |-> st, body |-> b, readErr |-> re,
     closeFails |-> cf, drained |-> FALSE]

\* what an executor (Doer) may return: a response with an open body and no
\* error, no response and an error, or a response together with an error
ExecOutcomes ==
    {[resp |-> Response(st, "orig", re, FALSE), err |-> "nil"] :
        st \in Statuses, re \in {"nil"} \cup ReadErrs}
    \cup {[resp |-> Response(st, "orig", "nil", TRUE), err |-> "nil"] : st \in Statuses}
    \cup {[resp |-> Response(st, "NoBody", "nil", FALSE), err |-> "nil"] : st \in Statuses}
    \cup {[resp |-> NilResp, err |-> e] : e \in TransportErrs}
    \cup {[resp |-> Response(500, "orig", "nil", FALSE), err |-> "other"]}

\* state of the stream an attempt's executor call returned
BodyStateOf(r) == IF ~r.isNil /\ r.body = "orig" THEN "open" ELSE "none"

\* bufRespBody losing the read error
bufRespBodySwallowsErr(r) ==
    CASE r.body \in {"nil", "NoBody"} ->
            [resp |-> r, err |-> "nil", closed |-> FALSE]
      [] r.readErr # "nil" ->
            [resp |-> [r EXCEPT !.body = "nil"], err |-> "nil", closed |-> FALSE]
      [] r.closeFails ->
            [resp |-> [r EXCEPT !.body = "errCloser"], err |-> "nil", closed |-> TRUE]
      [] OTHER ->
            [resp |-> [r EXCEPT !.body = "buf"], err |-> "nil", closed |-> TRUE]

\* bufRespBody applied to resp.Body: the new (resp, err) and whether the
\* original stream got closed
bufRespBody(r) ==
    CASE r.body \in {"nil", "NoBody"} ->
            [resp |-> r, err |-> "nil", closed |-> FALSE]
      [] r.readErr # "nil" ->
            [resp |-> [r EXCEPT !.body = "nil"], err |-> r.readErr, closed |-> FALSE]
      [] r.closeFails ->
            [resp |-> [r EXCEPT !.body = "errCloser"], err |-> "nil", closed |-> TRUE]
      [] OTHER ->
            [resp |-> [r EXCEPT !.body = "buf"], err |-> "nil", closed |-> TRUE]

\* drain(resp.Body): nothing for a nil body, else read up to 4 KiB and Close
drain(r) ==
    IF r.body = "nil"
    THEN [resp |-> r, closed |-> FALSE]
    ELSE [resp |-> [r EXCEPT !.drained = TRUE], closed |-> (r.body = "orig")]

\* resetRequest copying the request without asking GetBody for a fresh body:
\* the copy carries the stream the previous attempt has read to its end
resetRequestNoRewind(req) ==
    [ok |-> TRUE,
     req |-> [req EXCEPT !.id = req.id + 1,
                         !.content = IF req.body = "stream" THEN "" ELSE req.content]]

\* resetRequest storing the fresh body in the request it was given, no copy
resetRequestInPlace(req) ==
    IF req.body # "nil" /\ req.body # "NoBody"
    THEN IF req.GetBody.kind = "ok"
         THEN [ok |-> TRUE, req |-> [req EXCEPT !.content = req.GetBody.bytes]]
         ELSE [ok |-> FALSE, req |-> req]
    ELSE [ok |-> TRUE, req |-> req]

\* resetRequest: a copy of the request, with a fresh body from GetBody when
\* the request has a body
resetRequest(req) ==
    IF req.body # "nil" /\ req.body # "NoBody"
    THEN IF req.GetBody.kind = "ok"
         THEN [ok |-> TRUE,
               req |-> [req EXCEPT !.id = req.id + 1, !.content = req.GetBody.bytes]]
         ELSE [ok |-> FALSE, req |-> req]
    ELSE [ok |-> TRUE, req |-> [req EXCEPT !.id = req.id + 1]]

(***************************************************************************)
(* Go slices and maps: a slice is a window (arr, len) on a backing array   *)
(* of the heap, a url.Values is a map object of the heap holding slices    *)
(***************************************************************************)
QKeys == {"k"}
NilSlice == [arr |-> 0, len |-> 0]
NilMap == 0

\* cap(s) and the elements of s, in heap h of backing arrays
Cap(h, sl) == IF sl.arr = 0 THEN 0 ELSE Len(h[sl.arr])
Elems(h, sl) ==
    IF sl.arr = 0 THEN <<>> ELSE [i \in 1..sl.len |-> h[sl.arr][i]]

\* capacity append gives a full slice that grows by one element: 1, then
\* doubled (the runtime's growth for small slices)
growCap(old) == IF old = 0 THEN 1 ELSE 2 * old

\* append(sl, v): writes in place when len < cap, else moves to a new array
GoAppend(h, sl, v) ==
    IF sl.len < Cap(h, sl)
    THEN [arrs |-> [h EXCEPT ![sl.arr][sl.len + 1] = v],
          sl |-> [sl EXCEPT !.len = sl.len + 1]]
    ELSE LET n == growCap(Cap(h, sl))
             new == [i \in 1..n |->
                        IF i <= sl.len THEN h[sl.arr][i]
                        ELSE IF i = sl.len + 1 THEN v ELSE "_"]
         IN  [arrs |-> Append(h, new),
              sl |-> [arr |-> Len(h) + 1, len |-> sl.len + 1]]

(***************************************************************************)
(* requester.go, options.go: the Requester, Clone and the options          *)
(***************************************************************************)
\* an http.Header, as far as one key goes: nil, or the values of the key
NilHeader == [isNil |-> TRUE, vals |-> <<>>]
MakeHeader(vs) == [isNil |-> FALSE, vals |-> vs]

\* Requester.Headers and Requester.Trailers: the http.Header of the field,
\* a new, empty one when the field is nil
Headers(hd) == IF hd.isNil THEN MakeHeader(<<>>) ELSE hd

\* &Requester{}
EmptyRequester ==
    [Method |-> "", URL |-> "", Header |-> NilHeader, Trailer |-> NilHeader,
     QueryParams |-> NilMap, Body |-> [kind |-> "nil", bytes |-> ""],
     Marshaler |-> "nil", Middleware |-> NilSlice]

\* net/http validMethod: a method is a token; InvalidMethod is none
InvalidMethod == "bad method"
validMethod(m) == m # InvalidMethod

\* the options of a run: Method, URL (one of them unparsable), Header,
\* AddHeader, DeleteHeader, QueryParam, QueryParams, Body, WithMarshaler, Use
\* (the v of a Body option is the kind of the body: a string, or a value
\* for the Marshaler; the v of a QueryParams option is the value of key "k"
\* in the url.Values given, NoValues for an empty url.Values and BadStruct
\* for a struct that does not encode)
StringBody == "string"
ValueBody == "value"
NoValues == ""
BadStruct == "!"
FailOpt == [op |-> "URL", v |-> ":bad"]
Opts ==
    {[op |-> "Method", v |-> "POST"],
     [op |-> "URL", v |-> "u2"],
     FailOpt,
     [op |-> "Header", v |-> "a"],
     [op |-> "AddHeader", v |-> "b"],
     [op |-> "DeleteHeader", v |-> ""],
     [op |-> "QueryParam", v |-> "a"],
     [op |-> "QueryParam", v |-> "b"],
     [op |-> "QueryParams", v |-> NoValues],
     [op |-> "QueryParams", v |-> "a"],
     [op |-> "QueryParams", v |-> BadStruct],
     [op |-> "Body", v |-> StringBody],
     [op |-> "Use", v |-> "m1"],
     [op |-> "Use", v |-> "m2"]}

\* the option lists given to one With / Send call
CallOptLists ==
    {<<>>} \cup {<<o>> : o \in Opts}
    \cup {<<[op |-> "QueryParam", v |-> "b"], FailOpt>>,
          <<[op |-> "AddHeader", v |-> "b"], FailOpt>>,
          <<[op |-> "QueryParam", v |-> "a"], [op |-> "QueryParam", v |-> "b"]>>}

\* the option lists the source Requester is constructed with
NewOptLists ==
    {<<>>,
     <<[op |-> "QueryParam", v |-> "a"]>>,
     <<[op |-> "QueryParam", v |-> "a"], [op |-> "QueryParam", v |-> "b"]>>,
     <<[op |-> "QueryParam", v |-> "a"], [op |-> "QueryParam", v |-> "b"],
       [op |-> "QueryParam", v |-> "a"]>>,
     <<[op |-> "Use", v |-> "m1"], [op |-> "Use", v |-> "m1"],
       [op |-> "Use", v |-> "m1"]>>,
     <<[op |-> "Method", v |-> "POST"], [op |-> "URL", v |-> "u2"],
       [op |-> "Header", v |-> "a"], [op |-> "Body", v |-> StringBody]>>}

\* the per-call option lists of the concurrent callers
ConcOptLists ==
    {<<[op |-> "Use", v |-> "m1"]>>,
     <<[op |-> "Use", v |-> "m2"]>>,
     <<[op |-> "QueryParam", v |-> "a"]>>,
     <<[op |-> "QueryParam", v |-> "b"]>>,
     <<[op |-> "AddHeader", v |-> "b"]>>,
     <<[op |-> "QueryParam", v |-> "a"], [op |-> "Use", v |-> "m2"]>>,
     <<[op |-> "QueryParam", v |-> "b"], FailOpt>>,
     <<[op |-> "Method", v |-> InvalidMethod]>>}

\* the goroutines calling Send on the shared Requester
Callers == {1, 2}

\* url.Parse, as far as it fails
urlParseOk(raw) == raw # ":bad"

\* the URLs of a run: none (a nil *url.URL), the absolute "u1" and "u2" with
\* an empty path, the relative reference "p", and what resolving gives
AbsURLs == {"u1", "u2"}
RelRef == "p"

\* base.ResolveReference(ref), and ref itself for a nil base (RelativeURL):
\* an absolute ref replaces the base; the relative "p" replaces the last
\* path segment of the base, which is empty or "p" (the resolved path is
\* rooted, also for a base that is itself the relative "p")
ResolveReference(base, ref) ==
    IF ref \in AbsURLs \/ base = "" THEN ref
    ELSE IF base \in {"u1", "u1/p"} THEN "u1/p"
    ELSE IF base \in {"u2", "u2/p"} THEN "u2/p"
    ELSE "/p"

\* cloneURL: a copy of the url.URL struct
cloneURL(u) == u

\* cloneValues sharing the map with the source
cloneValuesShared(ms, m) == [maps |-> ms, m |-> m]

\* cloneValues: nil for nil, else a new map holding the same slices
cloneValues(ms, m) ==
    IF m = NilMap
    THEN [maps |-> ms, m |-> NilMap]
    ELSE [maps |-> Append(ms, ms[m]), m |-> Len(ms) + 1]

\* Requester.Clone: a struct copy, with Header and Trailer deep-copied
\* (http.Header.Clone), the URL struct copied and QueryParams cloneValues'd
Clone(ms, r) ==
    LET cv == cloneValues(ms, r.QueryParams)
    IN  [maps |-> cv.maps,
         r |-> [r EXCEPT !.URL = cloneURL(r.URL), !.QueryParams = cv.m]]

\* url.Values.Add on the Requester's map: v[key] = append(v[key], value)
ValuesAdd(h, ms, m, key, v) ==
    LET ap == GoAppend(h, ms[m][key], v)
    IN  [arrs |-> ap.arrs, maps |-> [ms EXCEPT ![m][key] = ap.sl]]

\* Requester.Params and the head of the option QueryParams: a nil
\* QueryParams becomes a new, empty url.Values
Params(ms, r) ==
    IF r.QueryParams = NilMap
    THEN [maps |-> Append(ms, [k |-> NilSlice]),
          r |-> [r EXCEPT !.QueryParams = Len(ms) + 1]]
    ELSE [maps |-> ms, r |-> r]

\* the end of QueryParam and QueryParams on p, the Requester with its map
\* made: b.QueryParams.Add(k, v)
addParam(h, p, v) ==
    LET ad == ValuesAdd(h, p.maps, p.r.QueryParams, "k", v)
    IN  [ok |-> TRUE, arrs |-> ad.arrs, maps |-> ad.maps, r |-> p.r]

\* the end of QueryParams on p: the error of a struct that does not encode,
\* nothing for no values, else the values added
addParams(h, p, v) ==
    IF v = BadStruct
    THEN [ok |-> FALSE, arrs |-> h, maps |-> p.maps, r |-> p.r]
    ELSE IF v = NoValues
    THEN [ok |-> TRUE, arrs |-> h, maps |-> p.maps, r |-> p.r]
    ELSE addParam(h, p, v)

\* one option applied to Requester r in heap (h, ms): Option.Apply
ApplyOpt(h, ms, r, o) ==
    CASE o.op = "Method" ->
            [ok |-> TRUE, arrs |-> h, maps |-> ms, r |-> [r EXCEPT !.Method = o.v]]
      [] o.op = "URL" ->
            IF urlParseOk(o.v)
            THEN [ok |-> TRUE, arrs |-> h, maps |-> ms, r |-> [r EXCEPT !.URL = o.v]]
            ELSE [ok |-> FALSE, arrs |-> h, maps |-> ms, r |-> r]
      [] o.op = "RelativeURL" ->
            IF urlParseOk(o.v)
            THEN [ok |-> TRUE, arrs |-> h, maps |-> ms,
                  r |-> [r EXCEPT !.URL = ResolveReference(r.URL, o.v)]]
            ELSE [ok |-> FALSE, arrs |-> h, maps |-> ms, r |-> r]
      [] o.op = "MethodPath" ->
            \* Method(m, path): r.Method = m, then RelativeURL(path)
            [ok |-> TRUE, arrs |-> h, maps |-> ms,
             r |-> [r EXCEPT !.Method = o.v,
                             !.URL = ResolveReference(r.URL, RelRef)]]
      [] o.op = "MethodBadPath" ->
            \* Method(m, ":bad"): r.Method = m, then RelativeURL fails
            [ok |-> FALSE, arrs |-> h, maps |-> ms, r |-> [r EXCEPT !.Method = o.v]]
      [] o.op = "Header" ->
            [ok |-> TRUE, arrs |-> h, maps |-> ms,
             r |-> [r EXCEPT !.Header = MakeHeader(<<o.v>>)]]
      [] o.op = "AddHeader" ->
            [ok |-> TRUE, arrs |-> h, maps |-> ms,
             r |-> [r EXCEPT !.Header = MakeHeader(Append(r.Header.vals, o.v))]]
      [] o.op = "DeleteHeader" ->
            \* b.Header.Del(key): nothing on a nil Header
            [ok |-> TRUE, arrs |-> h, maps |-> ms,
             r |-> [r EXCEPT !.Header.vals = <<>>]]
      [] o.op = "QueryParam" ->
            \* the map is made when nil, then b.QueryParams.Add(k, v)
            addParam(h, Params(ms, r), o.v)
      [] o.op = "QueryParams" ->
            \* the map is made when nil, before the struct is looked at
            addParams(h, Params(ms, r), o.v)
      [] o.op = "Body" ->
            [ok |-> TRUE, arrs |-> h, maps |-> ms,
             r |-> [r EXCEPT !.Body = [kind |-> o.v, bytes |-> "ab"]]]
      [] o.op = "WithMarshaler" ->
            [ok |-> TRUE, arrs |-> h, maps |-> ms,
             r |-> [r EXCEPT !.Marshaler = o.v]]
      [] OTHER ->
            LET ap == GoAppend(h, r.Middleware, o.v)
            IN  [ok |-> TRUE, arrs |-> ap.arrs, maps |-> ms,
                 r |-> [r EXCEPT !.Middleware = ap.sl]]

\* Apply going on after an option failed
RECURSIVE ApplyAllKeepsGoing(_, _, _, _)
ApplyAllKeepsGoing(h, ms, r, os) ==
    IF os = <<>>
    THEN [ok |-> TRUE, arrs |-> h, maps |-> ms, r |-> r, invoked |-> <<>>]
    ELSE LET one == ApplyOpt(h, ms, r, Head(os))
             rest == ApplyAllKeepsGoing(one.arrs, one.maps, one.r, Tail(os))
         IN  [rest EXCEPT !.ok = one.ok /\ rest.ok,
                          !.invoked = <<Head(os)>> \o rest.invoked]

\* Apply taking the options from the last to the first
RECURSIVE ApplyAllLastFirst(_, _, _, _)
ApplyAllLastFirst(h, ms, r, os) ==
    IF os = <<>>
    THEN [ok |-> TRUE, arrs |-> h, maps |-> ms, r |-> r, invoked |-> <<>>]
    ELSE LET rest == ApplyAllLastFirst(h, ms, r, Tail(os))
             one == ApplyOpt(rest.arrs, rest.maps, rest.r, Head(os))
         IN  IF ~rest.ok THEN rest
             ELSE [ok |-> one.ok, arrs |-> one.arrs, maps |-> one.maps,
                   r |-> one.r, invoked |-> rest.invoked \o <<Head(os)>>]

\* Requester.Apply: the options in order, stopping at the first that fails
\* (invoked: the options whose Apply was called)
RECURSIVE ApplyAll(_, _, _, _)

\* Apply, its first option having returned one: the error, or the other
\* options applied
applyRest(one, os) ==
    IF one.ok
    THEN LET rest == ApplyAll(one.arrs, one.maps, one.r, Tail(os))
         IN  [rest EXCEPT !.invoked = <<Head(os)>> \o rest.invoked]
    ELSE [ok |-> FALSE, arrs |-> one.arrs, maps |-> one.maps,
          r |-> one.r, invoked |-> <<Head(os)>>]

ApplyAll(h, ms, r, os) ==
    IF os = <<>>
    THEN [ok |-> TRUE, arrs |-> h, maps |-> ms, r |-> r, invoked |-> <<>>]
    ELSE applyRest(ApplyOpt(h, ms, r, Head(os)), os)

\* Requester.With: Clone, Apply on the clone; no Requester on error
WithOpts(h, ms, r, os) ==
    LET cl == Clone(ms, r)
    IN  ApplyAll(h, cl.maps, cl.r, os)

\* what withOpts returns: the Requester w.r (self: the receiver itself, not
\* a clone) and the error
asReturned(w, self) ==
    [ok |-> w.ok, arrs |-> w.arrs, maps |-> w.maps, r |-> w.r, self |-> self]

\* withOpts applying the options to the receiver itself
withOptsNoClone(h, ms, r, os) == asReturned(ApplyAll(h, ms, r, os), TRUE)

\* Requester.withOpts: With when there are options, else the receiver itself
\* (self: the Requester returned is the receiver, not a clone)
withOpts(h, ms, r, os) ==
    IF Len(os) > 0
    THEN asReturned(WithOpts(h, ms, r, os), FALSE)
    ELSE [ok |-> TRUE, arrs |-> h, maps |-> ms, r |-> r, self |-> TRUE]

\* the query values of a Requester, per key
QueryOf(h, ms, r) ==
    [key \in QKeys |->
        IF r.QueryParams = NilMap THEN <<>> ELSE Elems(h, ms[r.QueryParams][key])]

\* the values of the fields of Requester r that a request is made of
FieldsOf(h, ms, r) ==
    [Method |-> r.Method, URL |-> r.URL, Header |-> r.Header,
     Trailer |-> r.Trailer, Query |-> QueryOf(h, ms, r), Body |-> r.Body,
     Marshaler |-> r.Marshaler]

\* http.NewRequestWithContext, as far as the method is concerned: an empty
\* method means GET, an invalid one is an error
newRequestMethod(m) ==
    LET method == IF m = "" THEN "GET" ELSE m
    IN  [ok |-> validMethod(method), Method |-> method]

\* what RequestWithContext returns beside an error: no request
NilRequest ==
    [Method |-> "", URL |-> "", Header |-> NilHeader, Trailer |-> NilHeader,
     Query |-> [key \in QKeys |-> <<>>], ContentType |-> <<>>,
     Body |-> [kind |-> "nil", bytes |-> ""]]

\* r.RequestWithContext(ctx): the error of getRequestBody or of
\* http.NewRequestWithContext, else the request made of the fields of r:
\* the Header http.NewRequestWithContext made when the Requester has none,
\* the Content-Type set to what the marshaler returned
RequestWithContext(h, ms, r) ==
    LET bct == bodyContentType(r.Body, r.Marshaler)
        created == newRequestMethod(r.Method)
    IN  IF ~bct.ok
        THEN [ok |-> FALSE, err |-> "error marshaling body", req |-> NilRequest]
        ELSE IF ~created.ok
        THEN [ok |-> FALSE, err |-> "error creating request", req |-> NilRequest]
        ELSE [ok |-> TRUE, err |-> "nil",
              req |-> [Method |-> created.Method, URL |-> r.URL,
                       Header |-> Headers(r.Header), Trailer |-> r.Trailer,
                       Query |-> QueryOf(h, ms, r),
                       ContentType |-> requestContentType(<<>>, bct.ct),
                       Body |-> r.Body]]

\* r.Do(req): the middleware list Wrap is given, r.Middleware...
MiddlewareOf(h, r) == Elems(h, r.Middleware)

\* a Send call that made no request: RequestWithContext was not called
NoneSent == [ok |-> FALSE, err |-> "nil", req |-> NilRequest]

\* SendWithContext after withOpts returned res: nothing when an option
\* failed, else the request made and, when one was made, the middleware
\* list Do wraps the Doer in
sendWith(res) ==
    IF ~res.ok
    THEN [req |-> NoneSent, mw |-> <<>>]
    ELSE LET made == RequestWithContext(res.arrs, res.maps, res.r)
         IN  [req |-> made,
              mw |-> IF made.ok THEN MiddlewareOf(res.arrs, res.r) ELSE <<>>]

\* what r.Send(os...) makes when nothing runs beside it
SendAlone(h, ms, r, os) == sendWith(withOpts(h, ms, r, os))

(***************************************************************************)
(* State of the Requesters of a program                                    *)
(***************************************************************************)
VARIABLES
    reqs,       \* the Requester objects: reqs[1] is the source, the rest clones
    arrs,       \* heap of backing arrays
    maps,       \* heap of url.Values maps
    lastOp,     \* the operation performed last: kind, receiver, success
    nops,       \* number of operations performed
    cpc,        \* per caller of Send on the shared Requester: its position
    cleft,      \* per caller: its per-call options not applied yet
    cl,         \* per caller: the clone With made for it
    cReq,       \* per caller: the request RequestWithContext made
    cMw,        \* per caller: the middleware list Do wrapped the Doer in
    cExp        \* per caller: what its call yields when it runs alone

builderVars == <<reqs, arrs, maps, lastOp, nops>>
callerVars == <<cpc, cleft, cl, cReq, cMw, cExp>>

\* one call of a function of the package, for the properties of single calls
VARIABLES
    call,       \* the function called and its arguments
    result      \* what the call returned and did, once it has returned

fnVars == <<call, result>>

(***************************************************************************)
(* State of a server with the server-side Inspector: httptestutil          *)
(***************************************************************************)
\* An exchange is named by the number of its request among the requests
\* whose handlers have finished since a reader last left the buffer empty:
\* 1 for the first to finish, 2 for the next.
VARIABLES
    size,         \* the argument of NewInspector
    Exchanges,    \* the buffer of the channel Inspector.Exchanges, oldest first
    hpc,          \* per handler goroutine: "idle" or "serving"
    lastHandled,  \* history: the request whose handler finished last, 0 for none
    lastBuffered, \* history: the request whose exchange was buffered last
    dropped,      \* history: exchanges dropped since the buffer was last empty
    rpc,          \* the reading goroutine: "idle", "loop" (in LastExchange)
                  \* or "drain" (in Drain)
    e,            \* the exchange of LastExchange's variable e and of what
                  \* NextExchange returned, 0 for nil
    returned,     \* history: the latest return of LastExchange
    drained       \* Drain's variable e, the exchanges collected

serverVars ==
    <<size, Exchanges, hpc, lastHandled, lastBuffered, dropped, rpc, e,
      returned, drained>>

MaxHandlers == 2

\* LastExchange has not returned yet.  Once it has: isNil, whether it
\* returned nil; behind, how many requests were handled after the one it
\* returned; unbuffered, whether an exchange was buffered after the one it
\* returned; dropped, how many exchanges had been dropped.
NothingReturned ==
    [done |-> FALSE, isNil |-> TRUE, behind |-> 0, unbuffered |-> FALSE,
     dropped |-> 0]

\* no server in use
ServerIdle ==
    /\ size = 0 /\ Exchanges = <<>>
    /\ hpc = [h \in 1..MaxHandlers |-> "idle"]
    /\ lastHandled = 0 /\ lastBuffered = 0 /\ dropped = 0
    /\ rpc = "idle" /\ e = 0 /\ returned = NothingReturned /\ drained = <<>>

(***************************************************************************)
(* State of one send through the Retry middleware                          *)
(***************************************************************************)
VARIABLES
    builder,    \* the Requester's Body and GetBody fields
    cfg,        \* the RetryConfig given to Retry()
    req0,       \* the request handed to the middleware
    req,        \* the loop's req variable
    pc,         \* "ready", "decide", "wait", "done"
    attempt,    \* the loop's attempt counter
    resp,       \* the loop's resp variable
    err,        \* the loop's err variable
    ctxDone,    \* the request context is cancelled
    timer,      \* ticks left until time.After fires; -1 when not armed
    ret,        \* what the middleware returned: resp, err and the exit path
    calls,      \* history: request id and body bytes of every executor call
    last,       \* history: what the executor returned on the latest call
    judged,     \* history: result of every ShouldRetry call
    srArgs,     \* history: attempt number given to every ShouldRetry call
    waits,      \* history: (attempt, duration) of every backoff wait
    bodyState   \* history: "none" / "open" / "closed" per executor call

retryVars ==
    <<builder, cfg, req0, req, pc, attempt, resp, err, ctxDone, timer, ret,
      calls, last, judged, srArgs, waits, bodyState>>

NoRet == [resp |-> NilResp, err |-> "nil", exit |-> "none"]

RetryInit ==
    /\ builder \in [Body : BuilderBodies, GetBody : BuilderGetBodies]
    /\ cfg \in RetryConfigs
    /\ req0 = RequestBodyOf(builder.Body, builder.GetBody)
    /\ req = req0
    /\ pc = "ready"
    /\ attempt = 0
    /\ resp = NilResp
    /\ err = "nil"
    /\ ctxDone = FALSE
    /\ timer = -1
    /\ ret = NoRet
    /\ calls = <<>>
    /\ last = [resp |-> NilResp, err |-> "nil"]
    /\ judged = <<>>
    /\ srArgs = <<>>
    /\ waits = <<>>
    /\ bodyState = <<>>

\* the normalized configuration the middleware closure holds
c == normalize(cfg)

\* if bodyEmpty(req) { return next.Do(req) }
PassThrough ==
    /\ pc = "ready"
    /\ bodyEmpty(req)
    /\ \E o \in ExecOutcomes :
        /\ calls' = Append(calls, [id |-> req.id, bytes |-> req.content])
        /\ last' = [resp |-> o.resp, err |-> o.err]
        /\ bodyState' = Append(bodyState, BodyStateOf(o.resp))
        /\ ret' = [resp |-> o.resp, err |-> o.err, exit |-> "pass"]
    /\ pc' = "done"
    /\ UNCHANGED <<builder, cfg, req0, req, attempt, resp, err, ctxDone, timer,
                   judged, srArgs, waits>>
    /\ UNCHANGED <<builderVars, callerVars, fnVars, serverVars>>

\* resp, err = next.Do(req); attempt++; the ReadResponse buffering
Attempt ==
    /\ \/ pc = "ready" /\ ~bodyEmpty(req)
       \/ pc = "call"
    /\ \E o \in ExecOutcomes :
        LET buf == IF o.err = "nil" /\ c.ReadResponse
                   THEN bufRespBody(o.resp)
                   ELSE [resp |-> o.resp, err |-> o.err, closed |-> FALSE]
            st == IF buf.closed THEN "closed" ELSE BodyStateOf(o.resp)
        IN  /\ calls' = Append(calls, [id |-> req.id, bytes |-> req.content])
            /\ resp' = buf.resp
            /\ err' = buf.err
            /\ last' = [resp |-> o.resp, err |-> o.err]
            /\ bodyState' = Append(bodyState, st)
    /\ attempt' = attempt + 1
    /\ pc' = "decide"
    /\ UNCHANGED <<builder, cfg, req0, req, ctxDone, timer, ret, judged, srArgs, waits>>
    /\ UNCHANGED <<builderVars, callerVars, fnVars, serverVars>>

\* the verdicts ShouldRetry may give on the current attempt
Verdicts ==
    IF c.ShouldRetry = "default"
    THEN {DefaultShouldRetry(resp.status, err)}
    ELSE BOOLEAN

\* attempt >= c.MaxAttempts: break without asking ShouldRetry
BreakMax ==
    /\ pc = "decide"
    /\ attemptsExhausted(attempt, c)
    /\ ret' = [resp |-> resp, err |-> err, exit |-> "break"]
    /\ pc' = "done"
    /\ UNCHANGED <<builder, cfg, req0, req, attempt, resp, err, ctxDone, timer,
                   calls, last, judged, srArgs, waits, bodyState>>
    /\ UNCHANGED <<builderVars, callerVars, fnVars, serverVars>>

\* !c.ShouldRetry.ShouldRetry(attempt, req, resp, err): break
BreakNoRetry ==
    /\ pc = "decide"
    /\ ~attemptsExhausted(attempt, c)
    /\ FALSE \in Verdicts
    /\ judged' = Append(judged, FALSE)
    /\ srArgs' = Append(srArgs, attempt)
    /\ ret' = [resp |-> resp, err |-> err, exit |-> "break"]
    /\ pc' = "done"
    /\ UNCHANGED <<builder, cfg, req0, req, attempt, resp, err, ctxDone, timer,
                   calls, last, waits, bodyState>>
    /\ UNCHANGED <<builderVars, callerVars, fnVars, serverVars>>

\* the body of the stream of the current attempt after drain(resp.Body)
Drained ==
    IF resp.isNil THEN [resp |-> resp, closed |-> FALSE] ELSE drain(resp)

\* ShouldRetry said yes: drain, resetRequest succeeds, arm the backoff timer
RetryAgain ==
    /\ pc = "decide"
    /\ ~attemptsExhausted(attempt, c)
    /\ TRUE \in Verdicts
    /\ resetRequest(req).ok
    /\ judged' = Append(judged, TRUE)
    /\ srArgs' = Append(srArgs, attempt)
    /\ resp' = Drained.resp
    /\ bodyState' = IF Drained.closed
                    THEN [bodyState EXCEPT ![attempt] = "closed"]
                    ELSE bodyState
    /\ req' = resetRequest(req).req
    /\ err' = "nil"
    /\ timer' = Backoff(c.Backoff, attempt)
    /\ waits' = Append(waits, [attempt |-> attempt, d |-> Backoff(c.Backoff, attempt)])
    /\ pc' = "wait"
    /\ UNCHANGED <<builder, cfg, req0, attempt, ctxDone, ret, calls, last>>
    /\ UNCHANGED <<builderVars, callerVars, fnVars, serverVars>>

\* ShouldRetry said yes: drain, resetRequest fails: return resp, err
ResetFails ==
    /\ pc = "decide"
    /\ ~attemptsExhausted(attempt, c)
    /\ TRUE \in Verdicts
    /\ ~resetRequest(req).ok
    /\ judged' = Append(judged, TRUE)
    /\ srArgs' = Append(srArgs, attempt)
    /\ resp' = Drained.resp
    /\ bodyState' = IF Drained.closed
                    THEN [bodyState EXCEPT ![attempt] = "closed"]
                    ELSE bodyState
    /\ err' = "getbody"
    /\ ret' = [resp |-> Drained.resp, err |-> "getbody", exit |-> "reset"]
    /\ pc' = "done"
    /\ UNCHANGED <<builder, cfg, req0, req, attempt, ctxDone, timer, calls,
                   last, waits>>
    /\ UNCHANGED <<builderVars, callerVars, fnVars, serverVars>>

\* select: case <-req.Context().Done(): return nil, req.Context().Err()
WaitCancelled ==
    /\ pc = "wait"
    /\ ctxDone
    /\ ret' = [resp |-> NilResp, err |-> "ctx", exit |-> "cancel"]
    /\ timer' = -1
    /\ pc' = "done"
    /\ UNCHANGED <<builder, cfg, req0, req, attempt, resp, err, ctxDone, calls,
                   last, judged, srArgs, waits, bodyState>>
    /\ UNCHANGED <<builderVars, callerVars, fnVars, serverVars>>

\* select: case <-time.After(...): go round the loop
WaitElapsed ==
    /\ pc = "wait"
    /\ timer = 0
    /\ timer' = -1
    /\ pc' = "call"
    /\ UNCHANGED <<builder, cfg, req0, req, attempt, resp, err, ctxDone, ret,
                   calls, last, judged, srArgs, waits, bodyState>>
    /\ UNCHANGED <<builderVars, callerVars, fnVars, serverVars>>

\* time passes while the select blocks on both channels
Tick ==
    /\ pc = "wait"
    /\ timer > 0
    /\ ~ctxDone
    /\ timer' = timer - 1
    /\ UNCHANGED <<builder, cfg, req0, req, pc, attempt, resp, err, ctxDone, ret,
                   calls, last, judged, srArgs, waits, bodyState>>
    /\ UNCHANGED <<builderVars, callerVars, fnVars, serverVars>>

\* the caller cancels the request's context
Cancel ==
    /\ pc # "done"
    /\ ~ctxDone
    /\ ctxDone' = TRUE
    /\ UNCHANGED <<builder, cfg, req0, req, pc, attempt, resp, err, timer, ret,
                   calls, last, judged, srArgs, waits, bodyState>>
    /\ UNCHANGED <<builderVars, callerVars, fnVars, serverVars>>

RetryNext ==
    \/ PassThrough
    \/ Attempt
    \/ BreakMax
    \/ BreakNoRetry
    \/ RetryAgain
    \/ ResetFails
    \/ WaitCancelled
    \/ WaitElapsed
    \/ Tick
    \/ Cancel

vars == <<retryVars, builderVars, callerVars, fnVars, serverVars>>

\* the idle state of the Retry middleware
RetryIdle ==
    /\ builder = [Body |-> [kind |-> "nil", bytes |-> ""], GetBody |-> NoGetBody]
    /\ cfg = [MaxAttempts |-> 0, ShouldRetry |-> "default",
              Backoff |-> [BaseDelay |-> 0, Multiplier |-> 0, MaxDelay |-> 0],
              ReadResponse |-> FALSE]
    /\ req0 = RequestBodyOf(builder.Body, builder.GetBody)
    /\ req = req0
    /\ pc = "ready" /\ attempt = 0 /\ resp = NilResp /\ err = "nil"
    /\ ctxDone = FALSE /\ timer = -1 /\ ret = NoRet
    /\ calls = <<>> /\ judged = <<>> /\ srArgs = <<>> /\ waits = <<>>
    /\ bodyState = <<>>
    /\ last = [resp |-> NilResp, err |-> "nil"]

(***************************************************************************)
(* Requesters built, cloned and used by one goroutine                      *)
(***************************************************************************)
\* New(os...): Apply on an empty Requester
New(os) == ApplyAll(<<>>, <<>>, EmptyRequester, os)

\* no caller of Send on the shared Requester
CallersIdle ==
    /\ cpc = [cr \in Callers |-> "idle"]
    /\ cleft = [cr \in Callers |-> <<>>]
    /\ cl = [cr \in Callers |-> EmptyRequester]
    /\ cReq = [cr \in Callers |-> NoneSent]
    /\ cMw = [cr \in Callers |-> <<>>]
    /\ cExp = [cr \in Callers |-> [req |-> NoneSent, mw |-> <<>>]]

\* no single call under study
NoCall == [fn |-> "none"]
NoResult == [done |-> FALSE]
FnIdle == call = NoCall /\ result = NoResult

\* the source Requester: New with one of the construction option lists
BuilderInit ==
    /\ \E os \in NewOptLists :
        /\ New(os).ok
        /\ reqs = <<New(os).r>>
        /\ arrs = New(os).arrs
        /\ maps = New(os).maps
    /\ lastOp = [kind |-> "New", target |-> 1, ok |-> TRUE]
    /\ nops = 0

\* no Requester in use
BuilderIdle ==
    /\ reqs = <<EmptyRequester>>
    /\ arrs = <<>>
    /\ maps = <<>>
    /\ lastOp = [kind |-> "New", target |-> 1, ok |-> TRUE]
    /\ nops = 0

\* what the options leave applicable within the bounds
Fits(r, o) == o.op = "AddHeader" => Len(r.Header.vals) < MaxHeaderVals

\* reqs[i].Apply(o)
DoApply(i, o) ==
    /\ nops < MaxOps
    /\ Fits(reqs[i], o)
    /\ LET res == ApplyOpt(arrs, maps, reqs[i], o)
       IN  /\ arrs' = res.arrs
           /\ maps' = res.maps
           /\ reqs' = [reqs EXCEPT ![i] = res.r]
           /\ lastOp' = [kind |-> "Apply", target |-> i, ok |-> res.ok]
    /\ nops' = nops + 1
    /\ UNCHANGED <<retryVars, callerVars, fnVars, serverVars>>

\* reqs[i].Clone()
DoClone(i) ==
    /\ nops < MaxOps
    /\ Len(reqs) < MaxObjs
    /\ LET cln == Clone(maps, reqs[i])
       IN  /\ maps' = cln.maps
           /\ reqs' = Append(reqs, cln.r)
    /\ lastOp' = [kind |-> "Clone", target |-> i, ok |-> TRUE]
    /\ nops' = nops + 1
    /\ UNCHANGED <<arrs, retryVars, callerVars, fnVars, serverVars>>

\* reqs[i].With(os...)
DoWith(i, os) ==
    /\ nops < MaxOps
    /\ Len(reqs) < MaxObjs
    /\ \A n \in 1..Len(os) : Fits(reqs[i], os[n])
    /\ LET res == WithOpts(arrs, maps, reqs[i], os)
       IN  /\ arrs' = res.arrs
           /\ maps' = res.maps
           /\ reqs' = IF res.ok THEN Append(reqs, res.r) ELSE reqs
           /\ lastOp' = [kind |-> "With", target |-> i, ok |-> res.ok]
    /\ nops' = nops + 1
    /\ UNCHANGED <<retryVars, callerVars, fnVars, serverVars>>

\* reqs[i].Send(os...): withOpts, RequestWithContext, Do
DoSend(i, os) ==
    /\ nops < MaxOps
    /\ \A n \in 1..Len(os) : Fits(reqs[i], os[n])
    /\ LET res == withOpts(arrs, maps, reqs[i], os)
       IN  /\ arrs' = res.arrs
           /\ maps' = res.maps
           /\ reqs' = IF res.self THEN [reqs EXCEPT ![i] = res.r] ELSE reqs
           /\ lastOp' = [kind |-> "Send", target |-> i, ok |-> res.ok]
    /\ nops' = nops + 1
    /\ UNCHANGED <<retryVars, callerVars, fnVars, serverVars>>

\* reqs[i].Params(), and Add(key, v) on the url.Values it returns when v is
\* a value
DoParams(i, v) ==
    /\ nops < MaxOps
    /\ LET p == Params(maps, reqs[i])
           ad == ValuesAdd(arrs, p.maps, p.r.QueryParams, "k", v)
       IN  /\ arrs' = IF v = NoValues THEN arrs ELSE ad.arrs
           /\ maps' = IF v = NoValues THEN p.maps ELSE ad.maps
           /\ reqs' = [reqs EXCEPT ![i] = p.r]
    /\ lastOp' = [kind |-> "Params", target |-> i, ok |-> TRUE]
    /\ nops' = nops + 1
    /\ UNCHANGED <<retryVars, callerVars, fnVars, serverVars>>

\* reqs[i].Headers(), and Add(key, v) on the http.Header it returns when v
\* is a value
DoHeaders(i, v) ==
    /\ nops < MaxOps
    /\ Len(reqs[i].Header.vals) < MaxHeaderVals
    /\ LET hd == Headers(reqs[i].Header)
       IN  reqs' = [reqs EXCEPT ![i].Header =
                        IF v = NoValues THEN hd
                        ELSE MakeHeader(Append(hd.vals, v))]
    /\ lastOp' = [kind |-> "Headers", target |-> i, ok |-> TRUE]
    /\ nops' = nops + 1
    /\ UNCHANGED <<arrs, maps, retryVars, callerVars, fnVars, serverVars>>

\* reqs[i].Trailers(), and Set(key, v) on the http.Header it returns when v
\* is a value
DoTrailers(i, v) ==
    /\ nops < MaxOps
    /\ LET hd == Headers(reqs[i].Trailer)
       IN  reqs' = [reqs EXCEPT ![i].Trailer =
                        IF v = NoValues THEN hd ELSE MakeHeader(<<v>>)]
    /\ lastOp' = [kind |-> "Trailers", target |-> i, ok |-> TRUE]
    /\ nops' = nops + 1
    /\ UNCHANGED <<arrs, maps, retryVars, callerVars, fnVars, serverVars>>

BuilderNext ==
    \/ \E i \in 1..Len(reqs), o \in Opts : DoApply(i, o)
    \/ \E i \in 1..Len(reqs), v \in {NoValues, "b"} : DoParams(i, v)
    \/ \E i \in 1..Len(reqs), v \in {NoValues, "b"} : DoHeaders(i, v)
    \/ \E i \in 1..Len(reqs), v \in {NoValues, "t"} : DoTrailers(i, v)
    \/ \E i \in 1..Len(reqs) : DoClone(i)
    \/ \E i \in 1..Len(reqs), os \in CallOptLists : DoWith(i, os)
    \/ \E i \in 1..Len(reqs), os \in CallOptLists : DoSend(i, os)

(***************************************************************************)
(* Goroutines calling Send with per-call options on the shared Requester   *)
(* reqs[1]; each step is one statement of SendWithContext and With         *)
(***************************************************************************)
\* withOpts, With: r2 := r.Clone()
CallClone(cr, os) ==
    /\ cpc[cr] = "idle"
    /\ \A n \in 1..Len(os) : Fits(reqs[1], os[n])
    /\ LET cln == Clone(maps, reqs[1])
       IN  /\ maps' = cln.maps
           /\ cl' = [cl EXCEPT ![cr] = cln.r]
    /\ cleft' = [cleft EXCEPT ![cr] = os]
    /\ cExp' = [cExp EXCEPT ![cr] = SendAlone(arrs, maps, reqs[1], os)]
    /\ cpc' = [cpc EXCEPT ![cr] = "apply"]
    /\ UNCHANGED <<reqs, arrs, lastOp, nops, cReq, cMw, retryVars, fnVars, serverVars>>

\* With: r2.Apply(opts...), one option; the call ends when the option fails
CallApply(cr) ==
    /\ cpc[cr] = "apply"
    /\ cleft[cr] # <<>>
    /\ LET res == ApplyOpt(arrs, maps, cl[cr], Head(cleft[cr]))
       IN  /\ arrs' = res.arrs
           /\ maps' = res.maps
           /\ cl' = [cl EXCEPT ![cr] = res.r]
           /\ cpc' = [cpc EXCEPT ![cr] = IF res.ok THEN "apply" ELSE "failed"]
    /\ cleft' = [cleft EXCEPT ![cr] = Tail(cleft[cr])]
    /\ UNCHANGED <<reqs, lastOp, nops, cReq, cMw, cExp, retryVars, fnVars, serverVars>>

\* req, err := reqs.RequestWithContext(ctx)
CallRequest(cr) ==
    /\ cpc[cr] = "apply"
    /\ cleft[cr] = <<>>
    /\ cReq' = [cReq EXCEPT ![cr] = RequestWithContext(arrs, maps, cl[cr])]
    /\ cpc' = [cpc EXCEPT ![cr] = IF cReq'[cr].ok THEN "do" ELSE "failed"]
    /\ UNCHANGED <<builderVars, cleft, cl, cMw, cExp, retryVars, fnVars, serverVars>>

\* reqs.Do(req): Wrap(doer, r.Middleware...).Do(req)
CallDo(cr) ==
    /\ cpc[cr] = "do"
    /\ cMw' = [cMw EXCEPT ![cr] = MiddlewareOf(arrs, cl[cr])]
    /\ cpc' = [cpc EXCEPT ![cr] = "done"]
    /\ UNCHANGED <<builderVars, cleft, cl, cReq, cExp, retryVars, fnVars, serverVars>>

ConcNext ==
    \/ \E cr \in Callers, os \in ConcOptLists : CallClone(cr, os)
    \/ \E cr \in Callers : CallApply(cr)
    \/ \E cr \in Callers : CallRequest(cr)
    \/ \E cr \in Callers : CallDo(cr)

(***************************************************************************)
(* The package-level functions on the process-wide DefaultRequester        *)
(***************************************************************************)
\* var DefaultRequester = Requester{}
DefaultRequester == EmptyRequester

\* the into argument of Receive: nil, a target to unmarshal into, an Option
NoOpt == [op |-> "none", v |-> ""]
IntoValues ==
    {[kind |-> "nil", opt |-> NoOpt], [kind |-> "target", opt |-> NoOpt]}
    \cup {[kind |-> "option", opt |-> o] :
            o \in {[op |-> "Method", v |-> "POST"], [op |-> "URL", v |-> "u2"],
                   [op |-> "QueryParam", v |-> "a"], FailOpt}}

\* receiveOpts putting the Option given as into behind the other options
receiveOptsAppended(into, os) ==
    IF into.kind = "option" THEN os \o <<into.opt>> ELSE os

\* ReceiveWithContext: an into that is an Option goes in front of opts
receiveOpts(into, os) == IF into.kind = "option" THEN <<into.opt>> \o os ELSE os

\* ReceiveWithContext: ... and into becomes nil
receiveInto(into) == IF into.kind = "option" THEN "nil" ELSE into.kind

\* Request(opts...), RequestWithContext(ctx, opts...): reqs[1] is the
\* DefaultRequester
PkgRequest(os) ==
    /\ nops < MaxOps
    /\ LET res == withOpts(arrs, maps, reqs[1], os)
       IN  /\ arrs' = res.arrs
           /\ maps' = res.maps
           /\ reqs' = IF res.self THEN [reqs EXCEPT ![1] = res.r] ELSE reqs
           /\ lastOp' = [kind |-> "PkgRequest", target |-> 1, ok |-> res.ok]
    /\ nops' = nops + 1
    /\ UNCHANGED <<retryVars, callerVars, fnVars, serverVars>>

\* Send(opts...), SendWithContext(ctx, opts...)
PkgSend(os) ==
    /\ nops < MaxOps
    /\ LET res == withOpts(arrs, maps, reqs[1], os)
       IN  /\ arrs' = res.arrs
           /\ maps' = res.maps
           /\ reqs' = IF res.self THEN [reqs EXCEPT ![1] = res.r] ELSE reqs
           /\ lastOp' = [kind |-> "PkgSend", target |-> 1, ok |-> res.ok]
    /\ nops' = nops + 1
    /\ UNCHANGED <<retryVars, callerVars, fnVars, serverVars>>

\* Receive(into, opts...), ReceiveWithContext(ctx, into, opts...)
PkgReceive(into, os) ==
    /\ nops < MaxOps
    /\ LET res == withOpts(arrs, maps, reqs[1], receiveOpts(into, os))
       IN  /\ arrs' = res.arrs
           /\ maps' = res.maps
           /\ reqs' = IF res.self THEN [reqs EXCEPT ![1] = res.r] ELSE reqs
           /\ lastOp' = [kind |-> "PkgReceive", target |-> 1, ok |-> res.ok]
    /\ nops' = nops + 1
    /\ UNCHANGED <<retryVars, callerVars, fnVars, serverVars>>

PkgNext ==
    \/ \E os \in CallOptLists : PkgRequest(os)
    \/ \E os \in CallOptLists : PkgSend(os)
    \/ \E into \in IntoValues, os \in CallOptLists : PkgReceive(into, os)

(***************************************************************************)
(* Single calls of New, Apply and With with a list of options              *)
(***************************************************************************)
\* the options of the lists: two methods, two URLs, the relative forms, a
\* URL and a method path that do not parse, a query value, a header value
SeqOpts ==
    {[op |-> "Method", v |-> "POST"],
     [op |-> "MethodPath", v |-> "PUT"],
     [op |-> "MethodBadPath", v |-> "DELETE"],
     [op |-> "URL", v |-> "u1"],
     [op |-> "URL", v |-> "u2"],
     [op |-> "RelativeURL", v |-> "p"],
     FailOpt,
     [op |-> "QueryParam", v |-> "a"],
     [op |-> "QueryParams", v |-> BadStruct],
     [op |-> "AddHeader", v |-> "b"]}

\* the option lists of at most n options
RECURSIVE OptSeqs(_)
OptSeqs(n) ==
    IF n = 0 THEN {<<>>}
    ELSE LET shorter == OptSeqs(n - 1)
         IN  shorter \cup {<<o>> \o os : o \in SeqOpts, os \in shorter}

\* the calls: New(os...), and r.Apply(os...) and r.With(os...) on a receiver
\* r constructed by New(base...)
ApplyCalls ==
    [fn : {"New"}, base : {<<>>}, os : OptSeqs(MaxOptLen)]
    \cup [fn : {"Apply", "With"}, base : NewOptLists, os : OptSeqs(MaxOptLen)]

\* r.Apply(o) for each option in turn, whatever the calls return
RECURSIVE ApplyEach(_, _, _, _)
ApplyEach(h, ms, r, os) ==
    IF os = <<>>
    THEN [arrs |-> h, maps |-> ms, r |-> r]
    ELSE LET one == ApplyAll(h, ms, r, <<Head(os)>>)
         IN  ApplyEach(one.arrs, one.maps, one.r, Tail(os))

\* the call made and returned: ok (no error), the options invoked, ret (the
\* Requester returned: New's and With's, nil on error), recv (the receiver
\* and the heap after the call), each (the same after one Apply per option)
ApplyCall ==
    /\ call.fn \in {"New", "Apply", "With"}
    /\ ~result.done
    /\ LET b == New(call.base)
           res == CASE call.fn = "New" -> New(call.os)
                    [] call.fn = "Apply" -> ApplyAll(b.arrs, b.maps, b.r, call.os)
                    [] OTHER -> WithOpts(b.arrs, b.maps, b.r, call.os)
       IN  result' =
             [done |-> TRUE,
              ok |-> res.ok,
              invoked |-> res.invoked,
              ret |-> IF call.fn = "Apply" \/ ~res.ok
                      THEN [isNil |-> TRUE, r |-> EmptyRequester]
                      ELSE [isNil |-> FALSE, r |-> res.r],
              recv |-> [arrs |-> res.arrs, maps |-> res.maps,
                        r |-> IF call.fn = "Apply" THEN res.r ELSE b.r],
              each |-> ApplyEach(b.arrs, b.maps, b.r, call.os)]
    /\ UNCHANGED <<call, retryVars, builderVars, callerVars, serverVars>>

ApplyNext == ApplyCall

(***************************************************************************)
(* Single calls of RequestWithContext: the Content-Type and the query of   *)
(* the request made                                                        *)
(***************************************************************************)
\* the pairs of a raw query: well-formed ones, and one url.ParseQuery rejects
\* (a bad escape, a semicolon)
QueryKeys == <<"j", "k">>
RawPairs ==
    {[k |-> "j", v |-> "a", ok |-> TRUE],
     [k |-> "k", v |-> "a", ok |-> TRUE],
     [k |-> "k", v |-> "b", ok |-> TRUE],
     [k |-> "k", v |-> "%zz", ok |-> FALSE]}

\* the raw queries of at most n pairs
RECURSIVE RawQueries(_)
RawQueries(n) ==
    IF n = 0 THEN {<<>>}
    ELSE LET shorter == RawQueries(n - 1)
         IN  shorter \cup {<<pr>> \o q : pr \in RawPairs, q \in shorter}

\* the value lists of at most n values
RECURSIVE ValueSeqs(_)
ValueSeqs(n) ==
    IF n = 0 THEN {<<>>}
    ELSE LET shorter == ValueSeqs(n - 1)
         IN  shorter \cup {<<v>> \o vs : v \in {"a", "b"}, vs \in shorter}

\* Requester.QueryParams, by key
ParamValues == [j : ValueSeqs(1), k : ValueSeqs(MaxParamVals)]

\* the values of key in a sequence of pairs, in order
RECURSIVE ValuesIn(_, _)
ValuesIn(q, key) ==
    IF q = <<>> THEN <<>>
    ELSE (IF Head(q).k = key THEN <<Head(q).v>> ELSE <<>>) \o ValuesIn(Tail(q), key)

\* the pairs url.ParseQuery accepts
RECURSIVE WellFormed(_)
WellFormed(q) ==
    IF q = <<>> THEN <<>>
    ELSE (IF Head(q).ok THEN <<Head(q)>> ELSE <<>>) \o WellFormed(Tail(q))

\* URL.Query(): the values by key, malformed pairs silently dropped
Query(raw) ==
    [j |-> ValuesIn(WellFormed(raw), "j"), k |-> ValuesIn(WellFormed(raw), "k")]

\* the pairs of one key
RECURSIVE PairsOf(_, _)
PairsOf(key, vs) ==
    IF vs = <<>> THEN <<>>
    ELSE <<[k |-> key, v |-> Head(vs), ok |-> TRUE]>> \o PairsOf(key, Tail(vs))

\* url.Values.Encode(): the pairs sorted by key
Encode(vals) == PairsOf(QueryKeys[1], vals.j) \o PairsOf(QueryKeys[2], vals.k)

\* url.Values.Add of each value of the Requester's QueryParams
AddAll(existing, params) ==
    [j |-> existing.j \o params.j, k |-> existing.k \o params.k]

\* getQueryParams ignoring the query of the URL
getQueryParamsReplacing(raw, params) == Encode(params)

\* getQueryParams
getQueryParams(raw, params) ==
    IF raw = <<>>
    THEN Encode(params)
    ELSE Encode(AddAll(Query(raw), params))

\* RequestWithContext: if len(requester.QueryParams) > 0 the raw query is
\* what getQueryParams gives, else that of the URL as it is
requestRawQuery(raw, params) ==
    IF params.j # <<>> \/ params.k # <<>>
    THEN getQueryParams(raw, params)
    ELSE raw

\* Requester.Method: not set, a method, and one net/http refuses
RequestMethods == {"", "POST", InvalidMethod}

\* the calls: the Requester's Method, Content-Type header, Body, Marshaler,
\* the raw query of its URL and its QueryParams
RequestCalls ==
    [fn : {"RequestWithContext"}, method : RequestMethods,
     hct : HeaderContentTypes, body : BuilderBodies,
     marshaler : Marshalers, raw : RawQueries(MaxRawPairs), params : ParamValues]

\* r.RequestWithContext(ctx)
RequestCall ==
    /\ call.fn = "RequestWithContext"
    /\ ~result.done
    /\ LET bct == bodyContentType(call.body, call.marshaler)
           created == newRequestMethod(call.method)
           ok == bct.ok /\ created.ok
       IN  result' =
             [done |-> TRUE,
              ok |-> ok,
              err |-> IF ~bct.ok THEN "error marshaling body"
                      ELSE IF ~created.ok THEN "error creating request"
                      ELSE "nil",
              method |-> IF ok THEN created.Method ELSE "",
              contentType |-> IF ok THEN requestContentType(call.hct, bct.ct)
                              ELSE <<>>,
              query |-> IF ok THEN requestRawQuery(call.raw, call.params)
                        ELSE <<>>]
    /\ UNCHANGED <<call, retryVars, builderVars, callerVars, serverVars>>

RequestNext == RequestCall

(***************************************************************************)
(* Single calls of ReceiveWithContext and of readBody                      *)
(***************************************************************************)
\* the bytes of a response body, and the response's Content-Type
RespBytes == {"", "ab"}
RespContentTypes ==
    {<<>>, ContentTypeJSON, ContentTypeJSONUTF8, ContentTypeXML,
     <<"application", "/", "tree.subtype", "+", "json">>, ContentTypeText}

\* Requester.Unmarshaler: nil (DefaultUnmarshaler, the ContentTypeUnmarshaler)
\* or an UnmarshalFunc that accepts anything
Unmarshalers == {"nil", "func"}

\* the per-call options of Receive
RecvOpts ==
    {[op |-> "MethodPath", v |-> "PUT"],
     [op |-> "URL", v |-> "u1"],
     [op |-> "QueryParam", v |-> "b"],
     FailOpt}

RECURSIVE RecvOptLists(_)
RecvOptLists(n) ==
    IF n = 0 THEN {<<>>}
    ELSE LET shorter == RecvOptLists(n - 1)
         IN  shorter \cup {<<o>> \o os : o \in RecvOpts, os \in shorter}

\* readBody leaving the body open when reading it fails
readBodyLeaksOnError(rsp, bytes) ==
    IF rsp.isNil \/ rsp.body \in {"nil", "NoBody"}
    THEN [data |-> "", err |-> "nil", closed |-> FALSE]
    ELSE IF rsp.readErr # "nil"
         THEN [data |-> "", err |-> rsp.readErr, closed |-> FALSE]
         ELSE [data |-> bytes, err |-> "nil", closed |-> TRUE]

\* readBody: nothing for a nil response, a nil body or http.NoBody; else the
\* bytes read, or the read error, with resp.Body.Close() deferred
readBody(rsp, bytes) ==
    IF rsp.isNil \/ rsp.body \in {"nil", "NoBody"}
    THEN [data |-> "", err |-> "nil", closed |-> FALSE]
    ELSE IF rsp.readErr # "nil"
         THEN [data |-> "", err |-> rsp.readErr, closed |-> TRUE]
         ELSE [data |-> bytes, err |-> "nil", closed |-> TRUE]

\* the positions of a separator in a content type
IndexesOf(s, sep) == {n \in 1..Len(s) : s[n] = sep}

\* mime.ParseMediaType: the media type is what stands before the parameters;
\* an error when there is none
ParseMediaType(ct) ==
    LET semis == IndexesOf(ct, ";")
        first == CHOOSE n \in semis : \A m \in semis : n <= m
        media == IF semis = {} THEN ct ELSE SubSeq(ct, 1, first - 1)
    IN  [ok |-> media # <<>>, mediaType |-> media]

\* generalMediaType: the media type with just the suffix as the subtype,
\* application/vnd.api+json -> application/json; <<>> when there is no suffix
generalMediaType(s) ==
    LET pluses == IndexesOf(s, "+")
        slashes == IndexesOf(s, "/")
        i2 == CHOOSE n \in pluses : \A m \in pluses : m <= n
        i == CHOOSE n \in slashes : \A m \in slashes : n <= m
    IN  IF pluses # {} /\ Len(s) > i2 /\ slashes # {}
        THEN SubSeq(s, 1, i) \o SubSeq(s, i2 + 1, Len(s))
        ELSE <<>>

\* defaultUnmarshalers: the unmarshaler of each content type of the map
defaultUnmarshalers ==
    [ct \in {ContentTypeJSONUTF8, ContentTypeJSON,
             ContentTypeXMLUTF8, ContentTypeXML} |->
        IF ct \in {ContentTypeJSONUTF8, ContentTypeJSON} THEN "JSON" ELSE "XML"]

\* JSONMarshaler.Unmarshal and XMLMarshaler.Unmarshal: json.Unmarshal and
\* xml.Unmarshal fail on no bytes; the bytes of RespBytes decode
unmarshalWith(u, data) ==
    IF data # "" THEN "nil" ELSE IF u = "JSON" THEN "json" ELSE "xml"

\* ContentTypeUnmarshaler.Unmarshal: the error returned
ContentTypeUnmarshal(data, ct) ==
    LET parsed == ParseMediaType(ct)
        general == generalMediaType(parsed.mediaType)
    IN  IF ~parsed.ok THEN "mediatype"
        ELSE IF parsed.mediaType \in DOMAIN defaultUnmarshalers
        THEN unmarshalWith(defaultUnmarshalers[parsed.mediaType], data)
        ELSE IF general # <<>> /\ general \in DOMAIN defaultUnmarshalers
        THEN unmarshalWith(defaultUnmarshalers[general], data)
        ELSE "unsupported"

\* Unmarshaler.Unmarshal(data, contentType, into): the error returned by an
\* UnmarshalFunc that accepts anything, or by the ContentTypeUnmarshaler
Unmarshal(u, data, ct) ==
    IF u = "func" THEN "nil" ELSE ContentTypeUnmarshal(data, ct)

\* what the Doer of a Receive call returns: the outcomes with status 200,
\* and those with an error
RecvOutcomes == {o \in ExecOutcomes : o.err # "nil" \/ o.resp.status = 200}

\* the options the Requester of a Receive call is constructed with: none;
\* a method, a URL and a query value; a method net/http refuses; a body whose
\* marshaler fails
ReceiveBases ==
    {<<>>,
     <<[op |-> "Method", v |-> "POST"], [op |-> "URL", v |-> "u2"],
       [op |-> "QueryParam", v |-> "a"]>>,
     <<[op |-> "Method", v |-> InvalidMethod], [op |-> "URL", v |-> "u2"]>>,
     <<[op |-> "Body", v |-> ValueBody], [op |-> "WithMarshaler", v |-> "fail"]>>}

\* the calls: r.ReceiveWithContext(ctx, into, os...) on a Requester r made
\* by New(base...) whose Doer returns exec, a response of the given bytes
\* and Content-Type; and readBody(resp)
ReceiveCalls ==
    [fn : {"Receive"}, base : ReceiveBases,
     into : IntoValues, os : RecvOptLists(MaxRecvOpts), exec : RecvOutcomes,
     bytes : RespBytes, ct : RespContentTypes, unmarshaler : Unmarshalers]

ReadBodyCalls ==
    [fn : {"readBody"},
     resp : {o.resp : o \in RecvOutcomes} \cup {Response(200, "nil", "nil", FALSE)},
     bytes : RespBytes]

\* r.ReceiveWithContext(ctx, into, os...)
ReceiveCall ==
    /\ call.fn = "Receive"
    /\ ~result.done
    /\ LET b == New(call.base)
           w == withOpts(b.arrs, b.maps, b.r, receiveOpts(call.into, call.os))
           target == receiveInto(call.into)
           made == RequestWithContext(w.arrs, w.maps, w.r)
           sent == w.ok /\ made.ok
           rb == readBody(call.exec.resp, call.bytes)
           read == sent /\ call.exec.err = "nil"
           unm == read /\ rb.err = "nil" /\ target # "nil"
       IN  result' =
             [done |-> TRUE,
              invoked |-> IF Len(receiveOpts(call.into, call.os)) > 0
                          THEN ApplyAll(b.arrs, b.maps, b.r,
                                        receiveOpts(call.into, call.os)).invoked
                          ELSE <<>>,
              sent |-> sent,
              req |-> IF sent THEN made.req ELSE NilRequest,
              read |-> read,
              data |-> IF read THEN rb.data ELSE "",
              closed |-> read /\ rb.closed,
              unmarshalCalled |-> unm,
              resp |-> IF sent THEN call.exec.resp ELSE NilResp,
              err |-> IF ~w.ok THEN "apply"
                      ELSE IF ~made.ok THEN made.err
                      ELSE IF call.exec.err # "nil" THEN call.exec.err
                      ELSE IF rb.err # "nil" THEN rb.err
                      ELSE IF unm
                           THEN Unmarshal(call.unmarshaler, rb.data, call.ct)
                           ELSE "nil"]
    /\ UNCHANGED <<call, retryVars, builderVars, callerVars, serverVars>>

\* readBody(resp)
ReadBodyCall ==
    /\ call.fn = "readBody"
    /\ ~result.done
    /\ LET rb == readBody(call.resp, call.bytes)
       IN  result' = [done |-> TRUE, data |-> rb.data, err |-> rb.err,
                      closed |-> rb.closed]
    /\ UNCHANGED <<call, retryVars, builderVars, callerVars, serverVars>>

ReceiveNext ==
    \/ ReceiveCall
    \/ ReadBodyCall

(***************************************************************************)
(* Requester.Do: the middleware around the Doer                            *)
(***************************************************************************)
\* middleware: two that record what passes through them, Retry and
\* ExpectSuccessCode
DoMiddlewares == {"m1", "m2", "Retry", "ExpectSuccessCode"}

RECURSIVE UseLists(_)
UseLists(n) ==
    IF n = 0 THEN {<<>>}
    ELSE LET shorter == UseLists(n - 1)
         IN  shorter \cup {<<m>> \o ms : m \in DoMiddlewares, ms \in shorter}

\* status codes the Doer answers with
DoStatuses == {200, 201, 204, 278, 400, 407, 500}

\* what the Doer returns: a response with its body unread, or an error
DoOutcomes ==
    {[resp |-> Response(st, "orig", "nil", FALSE), err |-> "nil"] : st \in DoStatuses}
    \cup {[resp |-> NilResp, err |-> "EOF"]}
    \cup {[resp |-> Response(500, "orig", "nil", FALSE), err |-> "other"]}

\* IsSuccess: http.StatusOK <= code <= http.StatusIMUsed
IsSuccess(rsp) == rsp.status >= 200 /\ rsp.status <= 226

\* ExpectSuccessCode, what it makes of the outcome of next.Do(req): an error
\* of next passes through; a response whose code is not a success code
\* comes back untouched together with ErrUnsuccessfulResponse.  The codes
\* 200, 201, 204 and 278 are success codes, 400 and 407 are not
ExpectSuccessCode(out) ==
    IF out.err # "nil" THEN out
    ELSE IF out.resp.status \div 100 # 2
         THEN [resp |-> out.resp, err |-> "unsuccessful"]
         ELSE out

\* the middleware of a list, each with its place in the list
RECURSIVE Indexed(_, _)
Indexed(ms, k) ==
    IF ms = <<>> THEN <<>>
    ELSE <<[m |-> Head(ms), at |-> k]>> \o Indexed(Tail(ms), k + 1)

RECURSIVE Reversed(_)
Reversed(ms) == IF ms = <<>> THEN <<>> ELSE Reversed(Tail(ms)) \o <<Head(ms)>>

\* Wrap(d, m...): the Doer m[0](m[1](...m[n-1](d))), written as the list of
\* the layers a request passes, outermost first
RECURSIVE Wrap(_, _)
Wrap(d, ms) == IF ms = <<>> THEN d ELSE <<Head(ms)>> \o Wrap(d, Tail(ms))

\* Do of the Doer d for call dc, st the calls the innermost Doer has had and
\* the log so far.  Every middleware logs the request on its way in and the
\* response on its way out, Retry also each attempt; the innermost Doer
\* answers dc.first to its first call and dc.then to the later ones.
RECURSIVE Run(_, _, _)
RECURSIVE Attempts(_, _, _, _)
Run(d, dc, st) ==
    IF d = <<>>
    THEN [out |-> IF st.calls = 0 THEN dc.first ELSE dc.then,
          calls |-> st.calls + 1,
          log |-> Append(st.log, [ev |-> "exec", at |-> 0])]
    ELSE LET m == Head(d)
             entered == [st EXCEPT !.log = Append(@, [ev |-> "req", at |-> m.at])]
             inner == CASE m.m = "Retry" -> Attempts(d, dc, entered, 1)
                        [] m.m = "ExpectSuccessCode" ->
                              LET n == Run(Tail(d), dc, entered)
                              IN  [n EXCEPT !.out = ExpectSuccessCode(n.out)]
                        [] OTHER -> Run(Tail(d), dc, entered)
         IN  [inner EXCEPT !.log = Append(@, [ev |-> "resp", at |-> m.at])]

\* the loop of Retry, for a request without a body: next.Do until the
\* attempts are used up or ShouldRetry says no
Attempts(d, dc, st, nth) ==
    LET n == Run(Tail(d), dc,
                 [st EXCEPT !.log = Append(@, [ev |-> "attempt", at |-> Head(d).at])])
    IN  IF attemptsExhausted(nth, [MaxAttempts |-> dc.attempts])
           \/ ~DefaultShouldRetry(n.out.resp.status, n.out.err)
        THEN n
        ELSE Attempts(d, dc, [calls |-> n.calls, log |-> n.log], nth + 1)

\* Do wrapping the Doer in the middleware in reverse
DoLastOutermost(h, r, dc) ==
    Run(Wrap(<<>>, Reversed(Indexed(MiddlewareOf(h, r), 1))), dc,
        [calls |-> 0, log |-> <<>>])

\* Requester.Do: Wrap(doer, r.Middleware...).Do(req)
Do(h, r, dc) ==
    Run(Wrap(<<>>, Indexed(MiddlewareOf(h, r), 1)), dc, [calls |-> 0, log |-> <<>>])

\* the calls: Do on the Requester made by New(Use(m)...), each Retry of it
\* configured with MaxAttempts attempts; and the Doer ExpectSuccessCode
\* returns, called with next returning inner
DoCalls ==
    [fn : {"Do"}, uses : UseLists(MaxUses), attempts : 1..MaxDoAttempts,
     first : DoOutcomes, then : DoOutcomes]

ExpectCalls == [fn : {"ExpectSuccessCode"}, inner : DoOutcomes]

\* r.Do(req)
DoCall ==
    /\ call.fn = "Do"
    /\ ~result.done
    /\ LET b == New([i \in 1..Len(call.uses) |-> [op |-> "Use", v |-> call.uses[i]]])
           d == Do(b.arrs, b.r, call)
       IN  result' = [done |-> TRUE, out |-> d.out, calls |-> d.calls, log |-> d.log]
    /\ UNCHANGED <<call, retryVars, builderVars, callerVars, serverVars>>

\* ExpectSuccessCode()(next).Do(req)
ExpectCall ==
    /\ call.fn = "ExpectSuccessCode"
    /\ ~result.done
    /\ result' = [done |-> TRUE, out |-> ExpectSuccessCode(call.inner),
                  calls |-> 1, log |-> <<>>]
    /\ UNCHANGED <<call, retryVars, builderVars, callerVars, serverVars>>

DoNext ==
    \/ DoCall
    \/ ExpectCall

(***************************************************************************)
(* float64 arithmetic of ExponentialBackoff.Backoff                        *)
(***************************************************************************)
\* A float64 is NaN, +Inf / -Inf (s the sign), or the finite value
\* (n / 4) * Huge^h, where Huge stands for 1e200: Huge itself is a float64,
\* Huge * Huge is above the largest float64 and rounds to +Inf, and next to
\* a multiple of Huge a value with h = 0 is below the rounding error.
\* The values the model multiplies always have one factor with n a
\* multiple of 4, so that every product is exact.
MaxHugeExp == 1

NaN == [k |-> "nan", n |-> 0, h |-> 0]
Inf(s) == [k |-> "inf", n |-> s, h |-> 0]
Fin(n, h) == [k |-> "fin", n |-> n, h |-> IF n = 0 THEN 0 ELSE h]

\* float64(d) of an integer
float64(d) == Fin(4 * d, 0)
Huge == Fin(4, 1)

Sgn(n) == IF n > 0 THEN 1 ELSE IF n < 0 THEN -1 ELSE 0

\* the sign of a float that is not NaN
fSign(x) == Sgn(x.n)

\* x < y of two floats, FALSE when either is NaN
fLess(x, y) ==
    LET key(z) == IF z.k = "inf" THEN <<(MaxHugeExp + 1) * z.n, 0>>
                  ELSE <<z.h * Sgn(z.n), z.n>>
    IN  /\ x.k # "nan" /\ y.k # "nan"
        /\ \/ key(x)[1] < key(y)[1]
           \/ key(x)[1] = key(y)[1] /\ key(x)[2] < key(y)[2]

\* x * y
fMul(x, y) ==
    CASE x.k = "nan" \/ y.k = "nan" -> NaN
      [] x.k = "inf" \/ y.k = "inf" ->
            IF fSign(x) * fSign(y) = 0 THEN NaN ELSE Inf(fSign(x) * fSign(y))
      [] OTHER ->
            IF x.n * y.n # 0 /\ x.h + y.h > MaxHugeExp
            THEN Inf(fSign(x) * fSign(y))
            ELSE Fin((x.n * y.n) \div 4, x.h + y.h)

\* x + y
fAdd(x, y) ==
    CASE x.k = "nan" \/ y.k = "nan" -> NaN
      [] x.k = "inf" /\ y.k = "inf" -> IF x.n = y.n THEN x ELSE NaN
      [] x.k = "inf" -> x
      [] y.k = "inf" -> y
      [] x.h > y.h -> x
      [] y.h > x.h -> y
      [] OTHER -> Fin(x.n + y.n, x.h)

fNeg(x) == IF x.k = "nan" THEN NaN ELSE [x EXCEPT !.n = -x.n]

\* x - y
fSub(x, y) == fAdd(x, fNeg(y))

\* math.Min and math.Max: NaN when either argument is NaN
mathMin(x, y) ==
    IF x.k = "nan" \/ y.k = "nan" THEN NaN ELSE IF fLess(y, x) THEN y ELSE x

mathMax(x, y) ==
    IF x.k = "nan" \/ y.k = "nan" THEN NaN ELSE IF fLess(x, y) THEN y ELSE x

\* math.Pow(x, n) for an integer n >= 0: Pow(x, 0) is 1 for every x
RECURSIVE mathPow(_, _)
mathPow(x, n) == IF n <= 0 THEN float64(1) ELSE fMul(x, mathPow(x, n - 1))

\* a time.Duration: ns nanoseconds, or the int64 named by sat
Ns(n) == [ns |-> n, sat |-> ""]
MinInt64 == [ns |-> 0, sat |-> "MinInt64"]
MaxInt64 == [ns |-> 0, sat |-> "MaxInt64"]

\* time.Duration(x): the fraction is discarded; for a float an int64 cannot
\* hold the result is implementation-dependent (amd64 gives MinInt64, arm64
\* saturates and turns NaN into 0)
Duration(x) ==
    CASE x.k = "nan" -> {MinInt64, Ns(0)}
      [] x.k = "inf" \/ x.h > 0 ->
            IF fSign(x) > 0 THEN {MinInt64, MaxInt64} ELSE {MinInt64}
      [] OTHER -> {Ns(Sgn(x.n) * ((Sgn(x.n) * x.n) \div 4))}

\* ExponentialBackoff.Backoff as a float64, before the conversion to a
\* Duration; rnd is the value rand.Float64() returns
BackoffFloat(b, n, rnd) ==
    LET b0 == float64(b.BaseDelay)
        b1 == IF fLess(float64(0), b.Multiplier)
              THEN fMul(b0, mathPow(b.Multiplier, n - 1))
              ELSE b0
        maxDelayf == float64(b.MaxDelay)
        b2 == IF b.MaxDelay > 0 THEN mathMin(b1, maxDelayf) ELSE b1
        b3 == mathMax(float64(0), b2)
        b4 == fMul(b3, fAdd(float64(1),
                            fMul(b.Jitter,
                                 fSub(fMul(rnd, float64(2)), float64(1)))))
        delta == fSub(b4, maxDelayf)
    IN  IF fLess(float64(0), b.Jitter)
        THEN IF b.MaxDelay > 0 /\ fLess(float64(0), delta)
             THEN fSub(maxDelayf, delta)
             ELSE b4
        ELSE b3

(***************************************************************************)
(* Single calls of DefaultShouldRetry and ExponentialBackoff.Backoff       *)
(***************************************************************************)
MaxBaseDelay == 2
MaxBackoffAttempt == 3

\* errors handed to DefaultShouldRetry: the four it names, a net.Error with
\* Timeout() true ("timeout") and one with Timeout() false ("neterror"),
\* io.ErrUnexpectedEOF and an error of no special kind
ShouldRetryErrs ==
    {"nil", "EOF", "ECONNRESET", "ECONNABORTED", "EPIPE", "timeout",
     "neterror", "ErrUnexpectedEOF", "other"}

ShouldRetryStatuses == {200, 400, 429, 499, 500, 501, 502, 599}

ShouldRetryCalls ==
    [fn : {"DefaultShouldRetry"}, status : ShouldRetryStatuses,
     e : ShouldRetryErrs]

\* Multiplier: negative, 0, 1, 2 and 1e200
Multipliers == {float64(-1), float64(0), float64(1), float64(2), Huge}

\* Jitter: 0, 1/2 and 1
Jitters == {Fin(0, 0), Fin(2, 0), Fin(4, 0)}

\* rand.Float64(): 0, 1/2 and 3/4, values of [0, 1)
Rands == {Fin(0, 0), Fin(2, 0), Fin(3, 0)}

BackoffCalls ==
    [fn : {"Backoff"},
     b : [BaseDelay : -1..MaxBaseDelay, Multiplier : Multipliers,
          Jitter : Jitters, MaxDelay : {0, 1, MaxBaseDelay + 1}],
     attempt : 1..MaxBackoffAttempt, rnd : Rands]

\* DefaultShouldRetry(attempt, req, resp, err)
ShouldRetryCall ==
    /\ call.fn = "DefaultShouldRetry"
    /\ ~result.done
    /\ result' = [done |-> TRUE,
                  retry |-> DefaultShouldRetry(call.status, call.e)]
    /\ UNCHANGED <<call, retryVars, builderVars, callerVars, serverVars>>

\* b.Backoff(attempt)
BackoffCall ==
    /\ call.fn = "Backoff"
    /\ ~result.done
    /\ \E d \in Duration(BackoffFloat(call.b, call.attempt, call.rnd)) :
          result' = [done |-> TRUE, d |-> d]
    /\ UNCHANGED <<call, retryVars, builderVars, callerVars, serverVars>>

(***************************************************************************)
(* AppendPath                                                              *)
(***************************************************************************)
\* Strings are sequences of characters here: a letter, the slash, a space.
MaxSegLen == 2
MaxSegs == 2
MaxApplies == 2

PathChars == {"a", "/", " "}
StringsUpTo(n) == UNION {[1..k -> PathChars] : k \in 0..n}
SegmentLists == UNION {[1..k -> StringsUpTo(MaxSegLen)] : k \in 0..MaxSegs}

\* the paths of the URL the option is applied to (r.URL.EscapedPath())
BasePaths == {<<>>, <<"/">>, <<"/", "a">>, <<"/", "a", "/">>}

\* strings.HasSuffix(s, "/")
HasSuffixSlash(s) == Len(s) > 0 /\ s[Len(s)] = "/"

\* strings.TrimSuffix(s, "/")
TrimSuffixSlash(s) == IF HasSuffixSlash(s) THEN SubSeq(s, 1, Len(s) - 1) ELSE s

\* unicode.IsSpace(r) || r == '/'
isSpaceOrSlash(ch) == ch \in {" ", "/"}

\* strings.TrimFunc(s, isSpaceOrSlash)
TrimFunc(s) ==
    LET keep == {i \in 1..Len(s) : ~isSpaceOrSlash(s[i])}
    IN  IF keep = {} THEN <<>>
        ELSE LET lo == CHOOSE i \in keep : \A j \in keep : i <= j
                 hi == CHOOSE i \in keep : \A j \in keep : i >= j
             IN  [i \in 1..(hi - lo + 1) |-> s[lo + i - 1]]

\* strings.Join(ss, "/")
RECURSIVE JoinSlash(_)
JoinSlash(ss) ==
    IF Len(ss) = 0 THEN <<>>
    ELSE IF Len(ss) = 1 THEN ss[1]
    ELSE ss[1] \o <<"/">> \o JoinSlash(Tail(ss))

\* the elements the loop of AppendPath keeps, trimmed
RECURSIVE keptOf(_)
keptOf(elements) ==
    IF Len(elements) = 0 THEN <<>>
    ELSE LET t == TrimFunc(elements[1])
         IN  (IF Len(t) > 0 THEN <<t>> ELSE <<>>) \o keptOf(Tail(elements))

\* RelativeURL(newPath) on a URL with the path basePath: an empty reference
\* leaves the URL as it is, a rooted path without dot segments replaces
\* the path
resolvePath(basePath, newPath) == IF newPath = <<>> THEN basePath ELSE newPath

\* One application of the function AppendPath(elements...) returned, to a
\* Requester whose URL has the path basePath. elements is the array the
\* variadic call captured (len = cap). els := elements[:0] shares that
\* array: the loop stores the kept elements at its front, append(els, "")
\* stays in the array while fewer than len(elements) were kept, and copy
\* and els[0] = ... then write to it as well. Returns the path of r.URL and
\* the array afterwards.
AppendPath(elements, basePath) ==
    IF Len(elements) = 0 THEN [path |-> basePath, elements |-> elements]
    ELSE
    LET n == Len(elements)
        trailingSlash == HasSuffixSlash(elements[n])
        kept == keptOf(elements)
        k == Len(kept)
        els == <<TrimSuffixSlash(basePath)>> \o kept
        joined == JoinSlash(els)
        newPath == IF trailingSlash THEN joined \o <<"/">> ELSE joined
        after == IF k < n
                 THEN [i \in 1..n |-> IF i <= k + 1 THEN els[i] ELSE elements[i]]
                 ELSE kept
    IN  [path |-> resolvePath(basePath, newPath), elements |-> after]

AppendPathCalls ==
    [fn : {"AppendPath"}, elements : SegmentLists, base : BasePaths]

\* opt.Apply(r) for the option opt := AppendPath(call.elements...) and a
\* Requester r with the URL call.base, a new r each time
AppendPathApply ==
    /\ call.fn = "AppendPath"
    /\ LET captured == IF result.done THEN result.elements ELSE call.elements
           paths == IF result.done THEN result.paths ELSE <<>>
           a == AppendPath(captured, call.base)
       IN  /\ Len(paths) < MaxApplies
           /\ result' = [done |-> TRUE, elements |-> a.elements,
                         paths |-> Append(paths, a.path)]
    /\ UNCHANGED <<call, retryVars, builderVars, callerVars, serverVars>>

FnNext ==
    \/ ShouldRetryCall
    \/ BackoffCall
    \/ AppendPathApply

(***************************************************************************)
(* The client-side Inspector in front of Retry: inspector.go               *)
(***************************************************************************)
\* Inspector.wrap: a body that is not nil is read to its end, closed and
\* replaced by io.NopCloser(bytes.NewReader(out)), here "buf"; a nil body
\* stays nil
wrap(body) == IF body = "nil" THEN "nil" ELSE "buf"

\* the request RequestWithContext made, before any middleware saw it
Materialized == RequestBodyOf(builder.Body, builder.GetBody)

\* Inspector{}: no request, no response and no bodies captured (done: the
\* Doer Wrap returned has returned; err: the error it returned)
NilCaptured == [isNil |-> TRUE, id |-> 0]
ZeroInspector ==
    [done |-> FALSE, Request |-> NilCaptured, RequestBody |-> "nil",
     Response |-> NilResp, ResponseBody |-> "nil", err |-> "nil"]

\* a send with Use(inspector, Retry(cfg)): the Inspector is the outermost
\* middleware and hands its request to the Doer Retry returned
InspectInit ==
    /\ builder \in [Body : BuilderBodies, GetBody : BuilderGetBodies]
    /\ cfg \in RetryConfigs
    /\ req0 = RequestBodyOf(builder.Body, builder.GetBody)
    /\ req = req0
    /\ pc = "inspect"
    /\ attempt = 0
    /\ resp = NilResp
    /\ err = "nil"
    /\ ctxDone = FALSE
    /\ timer = -1
    /\ ret = NoRet
    /\ calls = <<>>
    /\ last = [resp |-> NilResp, err |-> "nil"]
    /\ judged = <<>>
    /\ srArgs = <<>>
    /\ waits = <<>>
    /\ bodyState = <<>>
    /\ call = [fn |-> "Inspector.Wrap"]
    /\ result = ZeroInspector

\* i.Request = req; req.Body = i.wrap(req.Body, true); next.Do(req) enters
\* the Doer of Retry with the same *http.Request
InspectorRequest ==
    /\ call.fn = "Inspector.Wrap"
    /\ pc = "inspect"
    /\ req0' = [req0 EXCEPT !.body = wrap(req0.body)]
    /\ req' = req0'
    /\ result' = [result EXCEPT
                    !.Request = [isNil |-> FALSE, id |-> req0.id],
                    !.RequestBody = IF req0.body = "nil" THEN result.RequestBody
                                    ELSE "set"]
    /\ pc' = "ready"
    /\ UNCHANGED <<builder, cfg, attempt, resp, err, ctxDone, timer, ret,
                   calls, last, judged, srArgs, waits, bodyState>>
    /\ UNCHANGED <<call, builderVars, callerVars, serverVars>>

\* next.Do returned: i.Response = resp; resp.Body = i.wrap(resp.Body, false)
\* for a resp that is not nil (the error of io.ReadAll is dropped); return
\* resp, err
InspectorResponse ==
    /\ call.fn = "Inspector.Wrap"
    /\ pc = "done"
    /\ ~result.done
    /\ result' = [result EXCEPT
                    !.done = TRUE,
                    !.Response = IF ret.resp.isNil THEN ret.resp
                                 ELSE [ret.resp EXCEPT !.body = wrap(ret.resp.body),
                                                       !.readErr = "nil",
                                                       !.closeFails = FALSE],
                    !.ResponseBody = IF ret.resp.isNil \/ ret.resp.body = "nil"
                                     THEN result.ResponseBody ELSE "set",
                    !.err = ret.err]
    \* wrap reads the body to its end and closes it: the stream the latest
    \* executor call returned, when the response still carries it
    /\ bodyState' = IF ~ret.resp.isNil /\ ret.resp.body = "orig"
                    THEN [bodyState EXCEPT ![Len(bodyState)] = "closed"]
                    ELSE bodyState
    /\ UNCHANGED <<builder, cfg, req0, req, pc, attempt, resp, err, ctxDone,
                   timer, ret, calls, last, judged, srArgs, waits>>
    /\ UNCHANGED <<call, builderVars, callerVars, serverVars>>

\* i.Clear(), called once the Doer has returned: the four fields are nil
InspectorClear ==
    /\ call.fn = "Inspector.Wrap"
    /\ result.done
    /\ result' = [result EXCEPT !.Request = NilCaptured,
                                !.RequestBody = "nil",
                                !.Response = NilResp,
                                !.ResponseBody = "nil"]
    /\ UNCHANGED <<call, retryVars, builderVars, callerVars, serverVars>>

InspectNext ==
    \/ InspectorRequest
    \/ InspectorResponse
    \/ InspectorClear
    \/ RetryNext

(***************************************************************************)
(* The server-side Inspector: httptestutil/inspector.go                    *)
(***************************************************************************)
MaxSize == 2
MaxOverflow == 2
DefaultSize == 50

\* NewInspector(size): the capacity of the channel it makes
NewInspector(sz) == IF sz = 0 THEN DefaultSize ELSE sz

\* select { case ch <- ex: default: } that sends also on a full channel
selectSendUnbounded(ch, capacity, ex) == [ch |-> Append(ch, ex), sent |-> TRUE]

\* select { case ch <- ex: default: }: the send happens when the buffer
\* has room (no goroutine is blocked receiving), else the default case runs
selectSend(ch, capacity, ex) ==
    IF Len(ch) < capacity
    THEN [ch |-> Append(ch, ex), sent |-> TRUE]
    ELSE [ch |-> ch, sent |-> FALSE]

\* case ex := <-ch taking the exchange that was sent last
selectRecvNewest(ch) == [ex |-> ch[Len(ch)], ch |-> SubSeq(ch, 1, Len(ch) - 1)]

\* case ex := <-ch, for a buffer that is not empty: the oldest exchange
selectRecv(ch) == [ex |-> Head(ch), ch |-> Tail(ch)]

\* a server with the handler NewInspector(size).Wrap(next), no request yet
ServerInit ==
    /\ size \in 0..MaxSize
    /\ Exchanges = <<>>
    /\ hpc = [h \in 1..MaxHandlers |-> "idle"]
    /\ lastHandled = 0 /\ lastBuffered = 0 /\ dropped = 0
    /\ rpc = "idle" /\ e = 0 /\ returned = NothingReturned /\ drained = <<>>

\* the handlers that are serving a request
Serving == {h \in 1..MaxHandlers : hpc[h] = "serving"}

\* a request reaches the handler Wrap returned: the exchange is set up and
\* next.ServeHTTP(w, r) runs.  At most MaxOverflow requests more than the
\* channel holds are taken between two returns of LastExchange.
HandlerServe(h) ==
    /\ hpc[h] = "idle"
    /\ lastHandled + Cardinality(Serving) < NewInspector(size) + MaxOverflow
    /\ hpc' = [hpc EXCEPT ![h] = "serving"]
    /\ UNCHANGED <<size, Exchanges, lastHandled, lastBuffered, dropped, rpc, e,
                   returned, drained>>
    /\ UNCHANGED <<retryVars, builderVars, callerVars, fnVars>>

\* next.ServeHTTP returned: the select at the end of the handler
HandlerFinish(h) ==
    /\ hpc[h] = "serving"
    /\ LET s == selectSend(Exchanges, NewInspector(size), lastHandled + 1)
       IN  /\ Exchanges' = s.ch
           /\ lastBuffered' = IF s.sent THEN lastHandled + 1 ELSE lastBuffered
           /\ dropped' = IF s.sent THEN dropped ELSE dropped + 1
    /\ lastHandled' = lastHandled + 1
    /\ hpc' = [hpc EXCEPT ![h] = "idle"]
    /\ UNCHANGED <<size, rpc, e, returned, drained>>
    /\ UNCHANGED <<retryVars, builderVars, callerVars, fnVars>>

\* LastExchange is called: var e *Exchange
LastExchangeCall ==
    /\ rpc = "idle"
    /\ rpc' = "loop"
    /\ e' = 0
    /\ UNCHANGED <<size, Exchanges, hpc, lastHandled, lastBuffered, dropped,
                   returned, drained>>
    /\ UNCHANGED <<retryVars, builderVars, callerVars, fnVars>>

\* case ex := <-b.Exchanges: e = &ex
LastExchangeRecv ==
    /\ rpc = "loop"
    /\ Exchanges # <<>>
    /\ e' = selectRecv(Exchanges).ex
    /\ Exchanges' = selectRecv(Exchanges).ch
    /\ UNCHANGED <<size, hpc, lastHandled, lastBuffered, dropped, rpc, returned,
                   drained>>
    /\ UNCHANGED <<retryVars, builderVars, callerVars, fnVars>>

\* default: return e
LastExchangeReturn ==
    /\ rpc = "loop"
    /\ Exchanges = <<>>
    /\ returned' = [done |-> TRUE, isNil |-> e = 0, behind |-> lastHandled - e,
                    unbuffered |-> e # lastBuffered, dropped |-> dropped]
    /\ lastHandled' = 0
    /\ lastBuffered' = 0
    /\ dropped' = 0
    /\ rpc' = "idle"
    /\ UNCHANGED <<size, Exchanges, hpc, e, drained>>
    /\ UNCHANGED <<retryVars, builderVars, callerVars, fnVars>>

\* NextExchange: select { case e := <-b.Exchanges: return &e; default:
\* return nil }
NextExchange ==
    /\ rpc = "idle"
    /\ IF Exchanges # <<>>
       THEN /\ e' = selectRecv(Exchanges).ex
            /\ Exchanges' = selectRecv(Exchanges).ch
       ELSE /\ e' = 0
            /\ Exchanges' = Exchanges
    /\ lastHandled' = IF Exchanges' = <<>> THEN 0 ELSE lastHandled
    /\ lastBuffered' = IF Exchanges' = <<>> THEN 0 ELSE lastBuffered
    /\ dropped' = IF Exchanges' = <<>> THEN 0 ELSE dropped
    /\ UNCHANGED <<size, hpc, rpc, returned, drained>>
    /\ UNCHANGED <<retryVars, builderVars, callerVars, fnVars>>

\* Drain is called: var e []*Exchange
DrainCall ==
    /\ rpc = "idle"
    /\ rpc' = "drain"
    /\ drained' = <<>>
    /\ UNCHANGED <<size, Exchanges, hpc, lastHandled, lastBuffered, dropped, e,
                   returned>>
    /\ UNCHANGED <<retryVars, builderVars, callerVars, fnVars>>

\* case ex := <-b.Exchanges: e = append(e, &ex)
DrainRecv ==
    /\ rpc = "drain"
    /\ Exchanges # <<>>
    /\ drained' = Append(drained, selectRecv(Exchanges).ex)
    /\ Exchanges' = selectRecv(Exchanges).ch
    /\ UNCHANGED <<size, hpc, lastHandled, lastBuffered, dropped, rpc, e,
                   returned>>
    /\ UNCHANGED <<retryVars, builderVars, callerVars, fnVars>>

\* default: return e.  The slice goes to the caller and Drain's variable
\* ends with the call.
DrainReturn ==
    /\ rpc = "drain"
    /\ Exchanges = <<>>
    /\ lastHandled' = 0
    /\ lastBuffered' = 0
    /\ dropped' = 0
    /\ rpc' = "idle"
    /\ drained' = <<>>
    /\ UNCHANGED <<size, Exchanges, hpc, e, returned>>
    /\ UNCHANGED <<retryVars, builderVars, callerVars, fnVars>>

ServerNext ==
    \/ \E h \in 1..MaxHandlers : HandlerServe(h)
    \/ \E h \in 1..MaxHandlers : HandlerFinish(h)
    \/ LastExchangeCall
    \/ LastExchangeRecv
    \/ LastExchangeReturn
    \/ NextExchange
    \/ DrainCall
    \/ DrainRecv
    \/ DrainReturn

(***************************************************************************)
(* Specifications                                                          *)
(***************************************************************************)
\* a send through the Retry middleware, no Requester in use
Init == RetryInit /\ BuilderIdle /\ CallersIdle /\ ServerIdle /\ FnIdle

\* one send through the Retry middleware
Spec == Init /\ [][RetryNext]_vars

\* a source Requester constructed, nothing sent
InitBuilder == BuilderInit /\ RetryIdle /\ CallersIdle /\ ServerIdle /\ FnIdle

\* Requesters built, cloned and used by one goroutine
SpecBuilder == InitBuilder /\ [][BuilderNext]_vars

\* concurrent Send calls on one shared Requester
SpecConc == InitBuilder /\ [][ConcNext]_vars

\* the DefaultRequester as the package is initialized
InitPkg ==
    /\ reqs = <<DefaultRequester>>
    /\ arrs = <<>>
    /\ maps = <<>>
    /\ lastOp = [kind |-> "New", target |-> 1, ok |-> TRUE]
    /\ nops = 0
    /\ RetryIdle
    /\ CallersIdle /\ ServerIdle
    /\ FnIdle

\* calls of the package-level functions
SpecPkg == InitPkg /\ [][PkgNext]_vars

\* a call of New, Apply or With about to be made
InitApply ==
    /\ call \in ApplyCalls
    /\ result = NoResult
    /\ RetryIdle /\ BuilderIdle /\ CallersIdle /\ ServerIdle

\* single calls of New, Apply and With
SpecApply == InitApply /\ [][ApplyNext]_vars

\* a call of RequestWithContext about to be made
InitRequest ==
    /\ call \in RequestCalls
    /\ result = NoResult
    /\ RetryIdle /\ BuilderIdle /\ CallersIdle /\ ServerIdle

\* single calls of RequestWithContext
SpecRequest == InitRequest /\ [][RequestNext]_vars

\* a call of ReceiveWithContext or of readBody about to be made
InitReceive ==
    /\ call \in ReceiveCalls \cup ReadBodyCalls
    /\ result = NoResult
    /\ RetryIdle /\ BuilderIdle /\ CallersIdle /\ ServerIdle

\* single calls of ReceiveWithContext and readBody
SpecReceive == InitReceive /\ [][ReceiveNext]_vars

\* a call of Do or of ExpectSuccessCode's Doer about to be made
InitDo ==
    /\ call \in DoCalls \cup ExpectCalls
    /\ result = NoResult
    /\ RetryIdle /\ BuilderIdle /\ CallersIdle /\ ServerIdle

\* single calls of Requester.Do and of ExpectSuccessCode
SpecDo == InitDo /\ [][DoNext]_vars

InitFn ==
    /\ call \in ShouldRetryCalls \cup BackoffCalls \cup AppendPathCalls
    /\ result = NoResult
    /\ RetryIdle /\ BuilderIdle /\ CallersIdle /\ ServerIdle

\* single calls of DefaultShouldRetry, ExponentialBackoff.Backoff and of an
\* AppendPath option
SpecFn == InitFn /\ [][FnNext]_vars

InitInspect == InspectInit /\ BuilderIdle /\ CallersIdle /\ ServerIdle

\* a send through the client-side Inspector and, inside it, Retry
SpecInspect == InitInspect /\ [][InspectNext]_vars

InitServer == ServerInit /\ RetryIdle /\ BuilderIdle /\ CallersIdle /\ FnIdle

\* concurrent handlers of a server with the server-side Inspector, and a
\* goroutine that calls LastExchange
SpecServer == InitServer /\ [][ServerNext]_vars

(***************************************************************************)
(* Properties of the Retry middleware                                      *)
(***************************************************************************)
\* the request cannot be replayed: a body stream and no GetBody
NonReplayable == req0.body = "stream" /\ req0.GetBody.kind = "nil"

\* MaxAttempts as the documentation gives it: 3 when configured < 1
ExpectedMaxAttempts == IF cfg.MaxAttempts < 1 THEN 3 ELSE cfg.MaxAttempts

\* every ShouldRetry call of this send judged the attempt retryable
AllJudgedRetryable == \A i \in 1..Len(judged) : judged[i]

\* the error of the latest attempt: the executor's, or the error of reading
\* the response body when ReadResponse is set and the request is retried
AttemptErr ==
    IF ~NonReplayable /\ last.err = "nil" /\ cfg.ReadResponse
       /\ last.resp.body = "orig"
       /\ last.resp.readErr # "nil"
    THEN last.resp.readErr
    ELSE last.err

\* the response returned is the one of the latest executor call
ReturnsLastResponse ==
    /\ ret.resp.isNil = last.resp.isNil
    /\ ret.resp.status = last.resp.status

\* C1 as stated: for a replayable request whose attempts are all judged
\* retryable and whose context is never cancelled, the executor is invoked
\* exactly max_attempts times and the last response is returned with no error;
\* in every send the number of invocations is between 1 and max_attempts.
C1_Original ==
    /\ (pc = "done" /\ ~NonReplayable /\ ~ctxDone /\ AllJudgedRetryable
        /\ (cfg.ShouldRetry = "default"
              => DefaultShouldRetry(last.resp.status, AttemptErr)))
         => /\ Len(calls) = ExpectedMaxAttempts
            /\ ReturnsLastResponse
            /\ ret.err = "nil"
    /\ pc = "done" => Len(calls) >= 1 /\ Len(calls) <= ExpectedMaxAttempts

\* C1 amended: under the same conditions and when no GetBody call fails, the
\* executor is invoked exactly max_attempts times and the last attempt's
\* response is returned together with that attempt's error (absent only when
\* the attempt had none); invocations are always between 1 and max_attempts.
C1_MaxAttempts ==
    /\ (pc = "done" /\ ~NonReplayable /\ ~ctxDone /\ AllJudgedRetryable
        /\ ret.exit # "reset")
         => /\ Len(calls) = ExpectedMaxAttempts
            /\ ReturnsLastResponse
            /\ ret.err = AttemptErr
    /\ pc = "done" => Len(calls) >= 1 /\ Len(calls) <= ExpectedMaxAttempts

\* a send with the default MaxAttempts and a body replayed through GetBody
\* that ran all its attempts, the last one ending in a retryable error
C1_Witness ==
    /\ pc = "done" /\ ~ctxDone /\ AllJudgedRetryable
    /\ cfg.MaxAttempts = 0 /\ Len(calls) = 3 /\ Len(judged) = 2
    /\ req0.body = "stream" /\ req0.GetBody.kind = "ok"
    /\ ret.err = "EOF"

\* C2: a request with a body stream and no GetBody goes to the executor
\* exactly once, unchanged, and the executor's (response, error) comes back
\* as is, whatever MaxAttempts and ShouldRetry are.
C2_PassThrough ==
    (pc = "done" /\ NonReplayable)
      => /\ Len(calls) = 1
         /\ calls[1] = [id |-> 0, bytes |-> req0.content]
         /\ req = req0
         /\ ret.resp = last.resp
         /\ ret.err = last.err
         /\ judged = <<>>
         /\ waits = <<>>

\* a non-replayable request sent under a configuration that would retry
C2_Witness ==
    /\ pc = "done" /\ NonReplayable
    /\ cfg.MaxAttempts = 2 /\ cfg.ShouldRetry = "default" /\ cfg.ReadResponse
    /\ ret.resp.status = 500 /\ ret.err = "nil"
    /\ ret.resp.body = "orig" /\ ret.resp.readErr # "nil"

\* C3: once the context is cancelled while the middleware is at its backoff
\* wait, the next thing the middleware does is return the context's error,
\* without another executor call, for every backoff duration.
C3_CancelAbortsWait ==
    [][(pc = "wait" /\ ctxDone)
         => (pc' = "done" /\ ret'.err = "ctx" /\ calls' = calls)]_vars

\* C4: the next attempt waits and begins only after the response body of the
\* attempt before it has been closed, and when the middleware returns the only
\* body that may still be open is the one of the response it returns.
C4_BodiesClosed ==
    /\ pc \in {"wait", "call"}
         => \A i \in 1..Len(bodyState) : bodyState[i] # "open"
    /\ pc = "done"
         => \A i \in 1..Len(bodyState) :
               bodyState[i] = "open"
                 => /\ i = Len(bodyState)
                    /\ ~ret.resp.isNil
                    /\ ret.resp.body = "orig"

\* C5: a response the middleware returns carries a body, and the middleware
\* has neither drained nor closed that body.
C5_ReturnedBodyUnconsumed ==
    (pc = "done" /\ ~ret.resp.isNil)
      => /\ ret.resp.body # "nil"
         /\ ~ret.resp.drained

\* C6 as stated: the error returned is always the error of the last attempt.
C6_Original == pc = "done" => ret.err = AttemptErr

\* C6 amended: the error returned is the error of the last attempt, except
\* that the middleware returns the context's error when the context is done at
\* the backoff wait, and an error wrapping GetBody's failure when resetting
\* the request fails.
C6_ErrorPropagated ==
    /\ (pc = "done" /\ ~ctxDone /\ req0.GetBody.kind # "fail") => ret.err = AttemptErr
    /\ (pc = "done" /\ ret.err # AttemptErr)
         => \/ ret.err = "ctx" /\ ctxDone /\ waits # <<>> /\ ret.resp.isNil
            \/ ret.err = "getbody" /\ req0.GetBody.kind = "fail" /\ judged # <<>>

\* a send that ended with the body-read error of its second attempt
C6_Witness ==
    /\ pc = "done" /\ cfg.ReadResponse /\ Len(calls) = 2
    /\ last.err = "nil" /\ ret.err = "ECONNRESET"

\* all executor calls of the send read the same body bytes
SameBytesEveryAttempt ==
    \A i, j \in 1..Len(calls) : calls[i].bytes = calls[j].bytes

\* C7 as stated: the executor reads the same body bytes on every attempt,
\* for every Body and GetBody of the Requester, and a request with a body
\* and no GetBody is attempted once.
C7_Original ==
    /\ SameBytesEveryAttempt
    /\ (pc = "done" /\ NonReplayable) => Len(calls) = 1

\* the Requester's GetBody yields other bytes than the body it was built with
GetBodyDiffers ==
    /\ req0.body = "stream"
    /\ builder.GetBody.kind = "ok"
    /\ builder.GetBody.bytes # builder.Body.bytes

\* C7 amended: the executor reads the same body bytes on every attempt
\* unless the Requester's GetBody yields other bytes than its non-empty Body
\* (then the attempts after the first read GetBody's bytes); a request with a
\* body and no GetBody is attempted once.
C7_BodyReplay ==
    /\ ~GetBodyDiffers => SameBytesEveryAttempt
    /\ GetBodyDiffers =>
         \A i \in 1..Len(calls) :
            calls[i].bytes = IF i = 1 THEN builder.Body.bytes
                             ELSE builder.GetBody.bytes
    /\ (pc = "done" /\ NonReplayable) => Len(calls) = 1

\* three attempts of a string body, replayed through the automatic GetBody
C7_Witness ==
    /\ Len(calls) = 3
    /\ builder.Body.kind = "string" /\ builder.GetBody.kind = "nil"
    /\ calls[3].bytes = "ab" /\ calls[3].id = 2

(***************************************************************************)
(* Properties of the Requester, its clones and its per-call options        *)
(***************************************************************************)
\* the receiver of the operation performed last
Receiver == lastOp.target

\* C8: With, and Send with or without per-call options, leave the receiver's
\* method, url, headers, trailers, query parameters and body as they were
\* before the call, whether or not applying the options succeeds.
C8_ReceiverUnchanged ==
    [][(nops' = nops + 1 /\ lastOp'.kind \in {"With", "Send"}) =>
        FieldsOf(arrs', maps', reqs'[lastOp'.target])
            = FieldsOf(arrs, maps, reqs[lastOp'.target])]_vars

\* C8 witness: a With that succeeded on a receiver whose query values have
\* spare capacity, so that the clone's appended value went into the array the
\* receiver's values are in.
C8_Witness ==
    /\ lastOp.kind = "With" /\ lastOp.ok
    /\ Len(reqs) > 1
    /\ reqs[Receiver].QueryParams # NilMap
    /\ reqs[Len(reqs)].QueryParams # NilMap
    /\ LET mine == maps[reqs[Receiver].QueryParams]["k"]
           its == maps[reqs[Len(reqs)].QueryParams]["k"]
       IN  /\ its.arr = mine.arr
           /\ its.len = mine.len + 1

\* C9: a mutation of one Requester through an option (r.Apply) is not
\* observable in the source or in any other clone: the field values of every
\* other Requester are what they were before it.
C9_ClonesIndependent ==
    [][(nops' = nops + 1
            /\ lastOp'.kind \in {"Apply", "Params", "Headers", "Trailers"}) =>
        \A j \in 1..Len(reqs) :
            j # lastOp'.target =>
                FieldsOf(arrs', maps', reqs'[j]) = FieldsOf(arrs, maps, reqs[j])]_vars

\* C10: a Send call that ended made the request, and ran the middleware list,
\* of the shared Requester followed by the call's own options, whatever the
\* other callers did meanwhile.
C10_CallsIsolated ==
    \A cr \in Callers :
        cpc[cr] = "done" => cReq[cr] = cExp[cr].req /\ cMw[cr] = cExp[cr].mw

(***************************************************************************)
(* Properties of the package-level functions                               *)
(***************************************************************************)
\* C11: after any sequence of calls of the package-level functions Request,
\* Send and Receive (and their WithContext forms) with any options, every
\* field of the DefaultRequester has its initial value.
C11_DefaultUnchanged == reqs[1] = DefaultRequester

\* C11 witness: a package-level call with options succeeded and its options
\* added a query value and so allocated a map and a backing array.
C11_Witness ==
    /\ lastOp.kind \in {"PkgRequest", "PkgSend", "PkgReceive"}
    /\ lastOp.ok
    /\ Len(maps) > 0
    /\ Len(arrs) > 0

(***************************************************************************)
(* Properties of Apply                                                     *)
(***************************************************************************)
\* an option whose Apply returns an error
Fails(o) ==
    \/ o.op \in {"URL", "RelativeURL"} /\ ~urlParseOk(o.v)
    \/ o.op = "MethodBadPath"
    \/ o.op = "QueryParams" /\ o.v = BadStruct

\* the place of the first failing option of a list, 0 when none fails
FirstFail(os) ==
    IF \E k \in 1..Len(os) : Fails(os[k])
    THEN CHOOSE k \in 1..Len(os) :
            Fails(os[k]) /\ \A j \in 1..(k - 1) : ~Fails(os[j])
    ELSE 0

\* C12: Apply invokes the options in argument order up to and including the
\* first that fails and no option after it; it returns an error exactly when
\* an option failed, and New and With then return no Requester.
C12_FailFast ==
    (call.fn \in {"New", "Apply", "With"} /\ result.done) =>
        LET k == FirstFail(call.os)
        IN  /\ result.invoked = IF k = 0 THEN call.os ELSE SubSeq(call.os, 1, k)
            /\ result.ok = (k = 0)
            /\ (k # 0 => result.ret.isNil)
            /\ (k = 0 /\ call.fn # "Apply" => ~result.ret.isNil)

\* C12 witness: a With whose second of three options failed.
C12_Witness ==
    /\ call.fn = "With" /\ result.done
    /\ Len(call.os) = 3
    /\ FirstFail(call.os) = 2
    /\ ~result.ok

\* the options of a list but the last
Front(os) == SubSeq(os, 1, Len(os) - 1)

\* the method of the last method option of a list, m0 when it has none
RECURSIVE LastMethod(_, _)
LastMethod(m0, os) ==
    IF os = <<>> THEN m0
    ELSE IF os[Len(os)].op \in {"Method", "MethodPath", "MethodBadPath"}
         THEN os[Len(os)].v
         ELSE LastMethod(m0, Front(os))

\* the URL the last url option of a list sets, u0 when it has none: URL's
\* own, and for a relative one its reference resolved against what precedes
RECURSIVE LastURL(_, _)
LastURL(u0, os) ==
    IF os = <<>> THEN u0
    ELSE LET o == os[Len(os)]
         IN  CASE o.op = "URL" -> o.v
               [] o.op = "RelativeURL" -> ResolveReference(LastURL(u0, Front(os)), o.v)
               [] o.op = "MethodPath" -> ResolveReference(LastURL(u0, Front(os)), RelRef)
               [] OTHER -> LastURL(u0, Front(os))

\* the receiver of the call before it
Before == New(call.base).r

\* last url / method option wins, for a call of Apply that succeeded
LastWins ==
    result.ok =>
        /\ result.recv.r.Method = LastMethod(Before.Method, call.os)
        /\ result.recv.r.URL = LastURL(Before.URL, call.os)

\* C13 as stated: Apply(o1, o2) leaves the receiver and the heap as Apply(o1)
\* followed by Apply(o2) does, for any two options, and the last url /
\* method option of the list wins.
C13_Original ==
    (call.fn = "Apply" /\ result.done /\ Len(call.os) = 2) =>
        /\ result.recv = result.each
        /\ LastWins

\* C13: Apply(os...) leaves the receiver and the heap as one Apply per
\* option does when no option but the last fails (a failing option ends the
\* single call, while the separate calls go on after it); when the call
\* succeeds the method and the url are those of the last method / url option.
C13_ApplySequential ==
    (call.fn = "Apply" /\ result.done) =>
        /\ (\A k \in 1..(Len(call.os) - 1) : ~Fails(call.os[k])) =>
                result.recv = result.each
        /\ LastWins

\* C13 witness: an Apply of three options that succeeded, with two method
\* options of different methods and two url options, the last ones winning.
C13_Witness ==
    /\ call.fn = "Apply" /\ result.done /\ result.ok
    /\ call.os = <<[op |-> "MethodPath", v |-> "PUT"],
                   [op |-> "URL", v |-> "u2"],
                   [op |-> "Method", v |-> "POST"]>>
    /\ result.recv.r.Method = "POST"
    /\ result.recv.r.URL = "u2"
    /\ result.recv = result.each

(***************************************************************************)
(* Properties of RequestWithContext                                        *)
(***************************************************************************)
\* C14: when the Requester's headers hold a Content-Type and the body is a
\* value that is marshaled, the request's Content-Type is the header's value.
C14_HeaderContentTypeWins ==
    (call.fn = "RequestWithContext" /\ result.done /\ result.ok
        /\ call.body.kind = "value" /\ call.hct # <<>>) =>
            result.contentType = call.hct

\* a call of RequestWithContext that made a request of a Requester with
\* query parameters and a URL carrying a query
MergesQuery ==
    /\ call.fn = "RequestWithContext" /\ result.done /\ result.ok
    /\ call.raw # <<>>
    /\ (call.params.j # <<>> \/ call.params.k # <<>>)

\* C15 as stated: the request's query lists, for each key, the values of all
\* the URL's pairs of that key first and then the Requester's values in the
\* order added.
C15_Original ==
    MergesQuery =>
        /\ ValuesIn(result.query, "j") = ValuesIn(call.raw, "j") \o call.params.j
        /\ ValuesIn(result.query, "k") = ValuesIn(call.raw, "k") \o call.params.k

\* C15: the request's query lists, for each key, the values of the URL's
\* well-formed pairs of that key first and then the Requester's values in the
\* order added; the pairs of the URL that do not parse are dropped.
C15_WellFormedQueryMerged ==
    MergesQuery =>
        /\ ValuesIn(result.query, "j")
            = ValuesIn(WellFormed(call.raw), "j") \o call.params.j
        /\ ValuesIn(result.query, "k")
            = ValuesIn(WellFormed(call.raw), "k") \o call.params.k
        /\ \A n \in 1..Len(result.query) : result.query[n].ok

\* C15 witness: the URL carries k=a and j=a, the Requester adds k=b: the
\* request's query is j=a, k=a, k=b.
C15_Witness ==
    /\ MergesQuery
    /\ call.raw = <<[k |-> "k", v |-> "a", ok |-> TRUE],
                    [k |-> "j", v |-> "a", ok |-> TRUE]>>
    /\ call.params = [j |-> <<>>, k |-> <<"b">>]
    /\ result.query = <<[k |-> "j", v |-> "a", ok |-> TRUE],
                        [k |-> "k", v |-> "a", ok |-> TRUE],
                        [k |-> "k", v |-> "b", ok |-> TRUE]>>


\* the values of QueryParam options of a list, in its order
RECURSIVE QueryVals(_)
QueryVals(os) ==
    IF os = <<>> THEN <<>>
    ELSE QueryVals(Front(os)) \o
         (IF os[Len(os)].op = "QueryParam" THEN <<os[Len(os)].v>> ELSE <<>>)

\* the options of a Receive call whose into is an Option: into, then opts
IntoFirst == <<call.into.opt>> \o call.os

\* a request can be made of the Requester the options of the call leave: its
\* method is one net/http accepts and its body marshals
Creatable ==
    /\ newRequestMethod(LastMethod(Before.Method, IntoFirst)).ok
    /\ bodyContentType(Before.Body, Before.Marshaler).ok

\* C16: when the target of Receive is an Option it is applied before all
\* other options of the call, which keep their argument order, so that a
\* later option of the same field wins and query values follow in order;
\* the unmarshaler is not called.
C16_OptionTargetFirst ==
    (call.fn = "Receive" /\ result.done /\ call.into.kind = "option") =>
        /\ result.invoked =
             IF FirstFail(IntoFirst) = 0 THEN IntoFirst
             ELSE SubSeq(IntoFirst, 1, FirstFail(IntoFirst))
        /\ result.sent <=> (FirstFail(IntoFirst) = 0 /\ Creatable)
        /\ ~result.unmarshalCalled
        /\ result.sent =>
             /\ result.req.Method
                  = newRequestMethod(LastMethod(Before.Method, IntoFirst)).Method
             /\ result.req.URL = LastURL(Before.URL, IntoFirst)
             /\ result.req.Query["k"] =
                  QueryOf(New(call.base).arrs, New(call.base).maps, Before)["k"]
                  \o QueryVals(IntoFirst)

\* a Receive whose target, the option Method("POST"), was overridden by the
\* later Method("PUT", path), and whose response came back
C16_Witness ==
    /\ call.fn = "Receive" /\ result.done
    /\ call.into = [kind |-> "option", opt |-> [op |-> "Method", v |-> "POST"]]
    /\ call.os = <<[op |-> "MethodPath", v |-> "PUT"],
                   [op |-> "QueryParam", v |-> "b"]>>
    /\ result.sent /\ result.req.Method = "PUT"
    /\ result.err = "nil" /\ ~result.unmarshalCalled

\* C17: Receive with a target that is not an Option calls the unmarshaler
\* only when the body read is not empty; with an empty body the unmarshaler
\* is not called and Receive returns the response and no error.
C17_UnmarshalOnlyNonEmpty ==
    (/\ call.fn = "Receive" /\ result.done
     /\ call.into.kind = "target"
     /\ result.read
     /\ call.exec.resp.readErr = "nil") =>
        /\ result.unmarshalCalled <=> result.data # ""
        /\ result.data = "" => result.err = "nil"

\* C18: readBody closes the body of the response on the successful read and
\* on the read error alike whenever the body is neither nil nor http.NoBody,
\* so that the body is closed after every Receive whose send returned no
\* error; for a nil response, a nil body or http.NoBody it returns no bytes
\* and no error.
C18_BodyClosed ==
    /\ (call.fn = "Receive" /\ result.done /\ result.sent
        /\ call.exec.err = "nil" /\ call.exec.resp.body \notin {"nil", "NoBody"})
          => result.closed
    /\ (call.fn = "readBody" /\ result.done) =>
          IF call.resp.isNil \/ call.resp.body \in {"nil", "NoBody"}
          THEN result.data = "" /\ result.err = "nil"
          ELSE /\ result.closed
               /\ result.err = call.resp.readErr
               /\ result.data = IF call.resp.readErr = "nil" THEN call.bytes ELSE ""

\* a Receive that returned the error of reading the body, the body closed
C18_Witness ==
    /\ call.fn = "Receive" /\ result.done /\ result.sent
    /\ call.exec.err = "nil" /\ call.exec.resp.readErr # "nil"
    /\ result.err = call.exec.resp.readErr
    /\ result.closed


\* how often event ev of the middleware registered at place i is in the log
Count(ev, i) ==
    Cardinality({p \in 1..Len(result.log) : result.log[p] = [ev |-> ev, at |-> i]})

\* the place of the last Retry registered before place i, 0 when there is none
Encloser(i) ==
    IF \E k \in 1..(i - 1) : call.uses[k] = "Retry"
    THEN CHOOSE k \in 1..(i - 1) :
            call.uses[k] = "Retry" /\ \A j \in (k + 1)..(i - 1) : call.uses[j] # "Retry"
    ELSE 0

\* every request the middleware at j sees lies between a request and the
\* response to it that the middleware at i sees
Inside(i, j) ==
    \A p \in 1..Len(result.log) :
        result.log[p] = [ev |-> "req", at |-> j] =>
            \E a \in 1..(p - 1), b \in (p + 1)..Len(result.log) :
                /\ result.log[a] = [ev |-> "req", at |-> i]
                /\ result.log[b] = [ev |-> "resp", at |-> i]
                /\ \A q \in (a + 1)..(b - 1) : result.log[q].at # i \/ result.log[q].ev = "attempt"

\* C19: Do puts the middleware m1, ..., mn around the Doer with m1
\* outermost: m1 sees the request first and the response last, each
\* middleware sees what the ones registered after it see only in between,
\* and a middleware registered after a Retry is called once per attempt of
\* that Retry (once when no Retry is registered before it).
C19_FirstOutermost ==
    (call.fn = "Do" /\ result.done) =>
        /\ call.uses # <<>> =>
              /\ result.log[1] = [ev |-> "req", at |-> 1]
              /\ result.log[Len(result.log)] = [ev |-> "resp", at |-> 1]
        /\ \A i \in 1..Len(call.uses) :
              /\ Count("req", i) = Count("resp", i)
              /\ Count("req", i) = IF Encloser(i) = 0 THEN 1
                                   ELSE Count("attempt", Encloser(i))
              /\ \A j \in (i + 1)..Len(call.uses) : Inside(i, j)
        /\ result.calls = Count("exec", 0)
        /\ result.calls = IF Encloser(Len(call.uses) + 1) = 0 THEN 1
                          ELSE Count("attempt", Encloser(Len(call.uses) + 1))

\* Retry registered before m1, the Doer answering 500 twice: m1 saw both
\* attempts, each inside Retry
C19_Witness ==
    /\ call.fn = "Do" /\ result.done
    /\ call.uses = <<"Retry", "m1">>
    /\ result.calls = 2
    /\ result.log = <<[ev |-> "req", at |-> 1],
                      [ev |-> "attempt", at |-> 1], [ev |-> "req", at |-> 2],
                      [ev |-> "exec", at |-> 0], [ev |-> "resp", at |-> 2],
                      [ev |-> "attempt", at |-> 1], [ev |-> "req", at |-> 2],
                      [ev |-> "exec", at |-> 0], [ev |-> "resp", at |-> 2],
                      [ev |-> "resp", at |-> 1]>>

ReadFails ==
    /\ pc = "decide"
    /\ last.err = "nil" /\ last.resp.body = "orig" /\ last.resp.readErr # "nil"

\* the loop has left the decision on the current attempt
Decided == pc = "decide" /\ pc' # "decide"

\* the error ShouldRetry is given for an attempt whose body fails to read
ReadErrGiven == IF c.ReadResponse THEN last.resp.readErr ELSE "nil"

\* the errors the default policy retries: EOF, connection reset, connection
\* aborted, broken pipe, a timeout
DefaultRetriesErr(er) ==
    er \in {"EOF", "ECONNRESET", "ECONNABORTED", "EPIPE", "timeout"}

\* the statuses the default policy retries: 500, 429 and those above 501
DefaultRetriesStatus(st) == st = 500 \/ st = 429 \/ st > 501

\* C24 as stated: with ReadResponse set, the error of reading an attempt's
\* response body is that attempt's error and goes to ShouldRetry, so the
\* request is retried while attempts remain, and the first response that
\* reads to its end is returned; with ReadResponse not set the middleware
\* returns after that attempt with no error and the response unread.
C24_Original ==
    [][/\ (ReadFails /\ c.ReadResponse)' => err' = last'.resp.readErr
       /\ (Decided /\ ReadFails /\ c.ReadResponse
           /\ ~attemptsExhausted(attempt, c))
            => /\ srArgs' = Append(srArgs, attempt)
               /\ pc' = "wait"
       /\ (Decided /\ c.ReadResponse /\ err = "nil")
            => /\ pc' = "done"
               /\ ret'.err = "nil"
               /\ ret'.resp = resp
       /\ (Decided /\ ReadFails /\ ~c.ReadResponse)
            => /\ pc' = "done"
               /\ ret'.err = "nil"
               /\ ret'.resp = last.resp]_vars

\* C24 amended: with ReadResponse set, the error of reading an attempt's
\* response body is that attempt's error, the response losing its body, and
\* with ReadResponse not set the attempt carries no error and the response
\* stays unread.  On the attempt that reaches MaxAttempts ShouldRetry is not
\* asked and the send returns that response and error.  Before it,
\* ShouldRetry is asked once, about the read error with ReadResponse and
\* about no error without; the default policy says yes to a connection reset
\* and no to an unexpected EOF, and judges an attempt without error by its
\* status.  On yes the loop goes on to the wait, or returns the error of a
\* failing GetBody; on no the send returns the attempt's response and error.
\* A send that returns no error from the loop returns the response of the
\* attempt it decided last, read to its end when ReadResponse is set and
\* unread when not: that of the first attempt without error that ShouldRetry
\* did not ask to retry, or of the attempt that reached MaxAttempts.
C24_ReadErrorJudged ==
    [][/\ (ReadFails /\ c.ReadResponse)'
            => (err' = last'.resp.readErr /\ resp'.body = "nil")
       /\ (ReadFails /\ ~c.ReadResponse)' => (err' = "nil" /\ resp' = last'.resp)
       /\ (Decided /\ ReadFails /\ attemptsExhausted(attempt, c))
            => /\ srArgs' = srArgs /\ judged' = judged
               /\ pc' = "done"
               /\ ret'.err = ReadErrGiven /\ ret'.resp = resp
       /\ (Decided /\ ReadFails /\ ~attemptsExhausted(attempt, c))
            => /\ srArgs' = Append(srArgs, attempt)
               /\ \E v \in BOOLEAN :
                    /\ judged' = Append(judged, v)
                    /\ c.ShouldRetry = "default"
                         => v = IF c.ReadResponse
                                THEN DefaultRetriesErr(last.resp.readErr)
                                ELSE DefaultRetriesStatus(resp.status)
                    /\ v => (pc' = "wait" \/ ret'.err = "getbody")
                    /\ ~v => /\ pc' = "done"
                             /\ ret'.err = ReadErrGiven /\ ret'.resp = resp
       /\ (Decided /\ err = "nil" /\ c.ShouldRetry = "default"
           /\ ~attemptsExhausted(attempt, c))
            => judged' = Append(judged, DefaultRetriesStatus(resp.status))
       /\ (Decided /\ pc' = "done" /\ ret'.err = "nil")
            => /\ err = "nil"
               /\ ret'.resp = resp
               /\ c.ReadResponse => resp.body # "orig"
               /\ ~c.ReadResponse => resp = last.resp
               /\ \/ attemptsExhausted(attempt, c)
                  \/ judged' = Append(judged, FALSE)]_vars

\* with ReadResponse set and the default policy, the first attempt's body
\* failed to read and the second attempt's response, read to its end, came
\* back with no error
C24_Witness ==
    /\ pc = "done" /\ cfg.ReadResponse /\ cfg.ShouldRetry = "default"
    /\ Len(calls) = 2 /\ judged = <<TRUE>>
    /\ bodyState[1] = "open"
    /\ ret.err = "nil" /\ ret.resp.status = 200 /\ ret.resp.body = "buf"


\* the delay the Backoffer configured gives after attempt k
DelayAfter(k) ==
    LET bo == cfg.Backoff
        grown == IF bo.Multiplier > 0 THEN bo.BaseDelay * Pow(bo.Multiplier, k - 1)
                 ELSE bo.BaseDelay
    IN  IF bo.MaxDelay > 0 /\ grown > bo.MaxDelay THEN bo.MaxDelay ELSE grown

\* C28: within one send ShouldRetry is called with the attempt numbers
\* 1, 2, 3, ... in this order, once after every attempt but the one that
\* reaches MaxAttempts, after which it is not called; and the wait after
\* attempt k is Backoff(k).
C28_AttemptNumbers ==
    /\ \A i \in 1..Len(srArgs) : srArgs[i] = i
    /\ Len(judged) = Len(srArgs)
    /\ Len(srArgs) < ExpectedMaxAttempts
    /\ pc \in {"wait", "call"} => Len(srArgs) = attempt
    /\ pc = "decide" => Len(srArgs) = attempt - 1
    /\ (pc = "done" /\ ret.exit # "pass") =>
          Len(srArgs) = IF attempt >= ExpectedMaxAttempts THEN attempt - 1 ELSE attempt
    /\ (pc = "done" /\ ret.exit = "pass") => srArgs = <<>>
    /\ \A i \in 1..Len(waits) :
          waits[i] = [attempt |-> i, d |-> DelayAfter(i)]
    /\ Len(waits) = Cardinality({i \in 1..Len(judged) : judged[i]})
          - (IF pc = "done" /\ ret.exit = "reset" THEN 1 ELSE 0)
    /\ pc = "wait" => timer <= DelayAfter(attempt)

\* a send of three attempts under the exponential backoff: ShouldRetry was
\* asked after the first and the second, the waits were 1 and 2 ticks
C28_Witness ==
    /\ pc = "done" /\ attempt = 3
    /\ srArgs = <<1, 2>>
    /\ waits = <<[attempt |-> 1, d |-> 1], [attempt |-> 2, d |-> 2]>>


(***************************************************************************)
(* Properties of DefaultShouldRetry, Backoff and AppendPath                *)
(***************************************************************************)
\* C26: DefaultShouldRetry returns true exactly when the error is nil and
\* the status is 500, 429 or above 501, or when the error is EOF, a
\* connection reset, a connection abort, a broken pipe or a net error whose
\* Timeout() is true; it returns false for everything else, 501 and net
\* errors without a timeout included.
C26_ShouldRetryExactly ==
    (result.done /\ call.fn = "DefaultShouldRetry") =>
        (result.retry <=>
            \/ /\ call.e = "nil"
               /\ call.status \in {500, 429} \cup {s \in ShouldRetryStatuses : s > 501}
            \/ call.e \in {"EOF", "ECONNRESET", "ECONNABORTED", "EPIPE", "timeout"})

C26_Witness ==
    /\ result.done /\ call.fn = "DefaultShouldRetry"
    /\ call.e = "nil" /\ call.status = 501 /\ ~result.retry

\* base_delay * multiplier^(attempt-1) cut at max_delay, as a number of
\* nanoseconds (base_delay for a multiplier <= 0). With the multiplier
\* 1e200 and attempt > 1 the product is beyond max_delay for a positive
\* base_delay, 0 for base_delay 0 and below zero for a negative one, where
\* base_delay stands for it.
ExactDelay(b, a) ==
    LET m == b.Multiplier.n \div 4
    IN  IF m > 0 /\ b.Multiplier.h > 0 /\ a > 1
        THEN IF b.BaseDelay > 0 THEN b.MaxDelay ELSE b.BaseDelay
        ELSE IF m > 0 THEN Min(b.BaseDelay * Pow(m, a - 1), b.MaxDelay)
        ELSE Min(b.BaseDelay, b.MaxDelay)

\* C25: for attempt >= 1, max_delay > 0 and jitter in [0, 1] Backoff returns
\* d with 0 <= d <= max_delay, and with jitter = 0 exactly
\* min(base_delay * multiplier^(attempt-1), max_delay).
C25_BackoffBounds ==
    (result.done /\ call.fn = "Backoff" /\ call.b.MaxDelay > 0) =>
        /\ result.d.sat = ""
        /\ 0 <= result.d.ns /\ result.d.ns <= call.b.MaxDelay
        /\ call.b.Jitter = float64(0) =>
              result.d.ns = ExactDelay(call.b, call.attempt)

\* a segment with a character that is not white space
NonBlank(s) == \E i \in 1..Len(s) : s[i] # " "

\* the last segment of the list that is not empty or white space only
LastNonBlank(ss) ==
    ss[CHOOSE i \in 1..Len(ss) :
          NonBlank(ss[i]) /\ \A j \in (i + 1)..Len(ss) : ~NonBlank(ss[j])]

\* C27: the path AppendPath(segments...) yields ends in "/" if and only if
\* the last non-empty segment of the arguments ended in "/", also when
\* empty or white-space-only segments follow it.
C27_TrailingSlash ==
    (/\ result.done /\ call.fn = "AppendPath" /\ Len(result.paths) = 1
     /\ \E i \in 1..Len(call.elements) : NonBlank(call.elements[i]))
        => (HasSuffixSlash(result.paths[1])
                <=> HasSuffixSlash(LastNonBlank(call.elements)))

\* C29: an AppendPath option can be used again: applied a second time to a
\* Requester with the same URL it yields the same URL, and applying it
\* leaves the segment list it captured as it was.
C29_OptionReusable ==
    (result.done /\ call.fn = "AppendPath") =>
        /\ result.elements = call.elements
        /\ \A i \in 1..Len(result.paths) : result.paths[i] = result.paths[1]

(***************************************************************************)
(* Properties of the client-side Inspector with Retry                      *)
(***************************************************************************)
\* C21: the middlewares leave every field of the request handed to them as
\* it was materialized, Body included, and Retry sends its replays with a
\* copy of it (the executor's later calls get another request object).
C21_RequestNotMutated ==
    /\ req0 = Materialized
    /\ \A i \in 2..Len(calls) : calls[i].id # req0.id

\* C30: with the Inspector in front of it Retry makes the attempts it makes
\* without: it passes the request through for a single attempt exactly when
\* the materialized request cannot be replayed, and it gives up on
\* resetting the request only when resetting the materialized request fails.
C30_SameAttempts ==
    pc = "done" =>
        /\ ret.exit = "pass" <=> bodyEmpty(Materialized)
        /\ ret.exit = "reset" => ~resetRequest(Materialized).ok

\* C21, amended: Retry leaves every field of the request handed to it as it
\* is and sends its replays with a copy; the Inspector changes one field of
\* the request handed to it, Body, which it replaces by a reader over the
\* buffered bytes when it is not nil, the no-body sentinel included.
C21_OnlyInspectorReplacesBody ==
    /\ pc = "inspect" => req0 = Materialized
    /\ pc # "inspect" =>
          req0 = [Materialized EXCEPT
                    !.body = IF Materialized.body = "nil" THEN "nil" ELSE "buf"]
    /\ \A i \in 2..Len(calls) : calls[i].id # req0.id

C21_Witness ==
    /\ pc = "done" /\ result.done
    /\ Materialized.body = "stream" /\ req0.body = "buf"
    /\ Len(calls) = 2 /\ calls[1].id = req0.id /\ calls[2].id # req0.id

(***************************************************************************)
(* Properties of the server-side Inspector                                 *)
(***************************************************************************)
\* the capacity the claim gives: the size, 50 for the size 0
ClaimedCapacity == IF size = 0 THEN 50 ELSE size

\* C22: the buffer never holds more than C exchanges (50 for the size 0);
\* a handler that has served its request can always finish, whatever the
\* other handlers do and with nobody receiving, and when it finishes on a
\* full buffer its exchange is dropped, and only then.
C22_BoundedNoBlock ==
    /\ [](/\ Len(Exchanges) <= ClaimedCapacity
          /\ \A h \in 1..MaxHandlers :
                hpc[h] = "serving" => ENABLED HandlerFinish(h))
    /\ [][\A h \in 1..MaxHandlers :
            (hpc[h] = "serving" /\ hpc'[h] = "idle") =>
                IF Len(Exchanges) = ClaimedCapacity
                THEN dropped' = dropped + 1 /\ Exchanges' = Exchanges
                ELSE /\ dropped' = dropped
                     /\ Exchanges' = Append(Exchanges, lastHandled')]_vars

C22_Witness ==
    /\ size = 0 /\ Len(Exchanges) = 50 /\ dropped > 0 /\ rpc = "idle"
    /\ ~returned.done /\ Serving = {}

\* C23 as stated: LastExchange returns the exchange of the request handled
\* last since the buffer was emptied, nil when there was none, and leaves
\* the buffer empty.
C23_ReturnsMostRecentHandled ==
    [][(rpc = "loop" /\ rpc' = "idle") =>
          /\ e' = lastHandled
          /\ Exchanges' = <<>>]_vars

\* C23, amended: LastExchange returns the exchange that was buffered last
\* since the buffer was emptied, nil when none was, and leaves the buffer
\* empty; that is the request handled last when no exchange was dropped
\* since then.
C23_ReturnsLastBuffered ==
    [][(rpc = "loop" /\ rpc' = "idle") =>
          /\ e' = lastBuffered
          /\ dropped = 0 => e' = lastHandled
          /\ Exchanges' = <<>>]_vars

C23_Witness ==
    /\ returned.done /\ size = 1 /\ returned.dropped = 2
    /\ ~returned.isNil /\ returned.behind = 2 /\ ~returned.unbuffered
    /\ Exchanges = <<>>
====
